---- MODULE Spec2Model ----
(***************************************************************************)
(* Model of the news-rag retrieval-and-verdict pipeline:                   *)
(*   - AIService provider selection (ai-service, src/unnamed/part_004)     *)
(*   - ChromaVectorStore collection handle and filter compiler             *)
(*     (chroma-vector-store, src/src/types/news.ts)                        *)
(*   - FactChecker.checkClaim and verdict synthesis                        *)
(*     (src/src/lib/fact-checker.ts)                                       *)
(* Numbers that the program keeps as fractions in [0,1] (confidence,       *)
(* credibilityScore) are kept in tenths: 0.6 is 6, 1.0 is 10, 1.7 is 17.   *)
(***************************************************************************)
EXTENDS Integers, Sequences, FiniteSets, TLC

VARIABLES
  env,               \* the configuration read by AIService (env.AI_PROVIDER, the two keys)
  instance,          \* AIService.instance (static, per process)
  providers,         \* provider objects constructed so far (history)
  warnings,          \* console.warn fallback messages emitted so far (history)
  factChecker,       \* module-level singleton of fact-checker
  embeddingsService, \* module-level singleton of embeddings
  collection,        \* ChromaVectorStore.collection, one store singleton per process
  backend,           \* the vector backend: the collection named news_articles
  index,             \* records held by the backend collection
  tagsField,         \* the tags metadata field the backend holds for each record
  lastWrite,         \* per record id: the last write the backend applied (history)
  pc,                \* position of each caller (request / async operation)
  op,                \* operation each caller runs
  proc,              \* process each caller runs in
  calls,             \* external calls issued by each caller, in order (history)
  errs,              \* errors each caller has caught or received (history)
  local,             \* local variables of each caller
  assigned,          \* per process: number of assignments to this.collection (history)
  envChanges         \* number of configuration changes so far (bounded)

vars == <<env, instance, providers, warnings, factChecker, embeddingsService,
          collection, backend, index, tagsField, lastWrite, pc, op, proc, calls,
          errs, local, assigned, envChanges>>

routerVars == <<env, instance, providers, warnings, factChecker, embeddingsService, envChanges>>
storeVars == <<collection, backend, index, tagsField, lastWrite, assigned>>

----------------------------------------------------------------------------
(* Bounds of the model *)

NCallers == 2        \* concurrent callers of the vector store
NProcs == 2          \* processes sharing the backend
MaxRecords == 2      \* records the backend index may hold
MaxEnvChanges == 1   \* configuration changes in one behaviour
MaxProviders == 2    \* provider objects constructed in one behaviour
MaxFilterKeys == 2   \* keys of a filter object handed to searchSimilar
MaxBatch == 2        \* articles of one upsertArticles, ids of one deleteArticles

Callers == 1..NCallers
Procs == 1..NProcs
Requests == {c \in Callers : \A d \in Callers : c <= d}  \* the one request slot of Spec
MainProc == CHOOSE p \in Procs : \A q \in Procs : p <= q

----------------------------------------------------------------------------
(* JavaScript values as far as the pipeline looks at them *)

Undef == [t |-> "undef", n |-> 0, s |-> ""]
Null == [t |-> "null", n |-> 0, s |-> ""]
NaN == [t |-> "nan", n |-> 0, s |-> ""]
Num(x) == [t |-> "num", n |-> x, s |-> ""]
Str(x) == [t |-> "str", n |-> 0, s |-> x]
Bool(b) == [t |-> "bool", n |-> IF b THEN 1 ELSE 0, s |-> ""]

One == 10            \* the number 1.0 in tenths

\* strings that ToNumber reads as a number (in tenths); any other string is NaN
NumericStrings == {"0.5", "2"}
StringToTenths(s) == IF s = "0.5" THEN 5 ELSE 20

\* ToNumber, as Math.min / Math.max apply it to their arguments
ToNumber(v) ==
  CASE v.t = "num" -> v
    [] v.t = "null" -> Num(0)
    [] v.t = "bool" -> Num(v.n * One)
    [] v.t = "str" -> IF v.s = "" THEN Num(0)
                      ELSE IF v.s \in NumericStrings THEN Num(StringToTenths(v.s))
                      ELSE NaN
    [] OTHER -> NaN

MathMin(a, b) ==
  LET x == ToNumber(a)
      y == ToNumber(b)
  IN IF x.t = "nan" \/ y.t = "nan" THEN NaN
     ELSE IF x.n <= y.n THEN x ELSE y

MathMax(a, b) ==
  LET x == ToNumber(a)
      y == ToNumber(b)
  IN IF x.t = "nan" \/ y.t = "nan" THEN NaN
     ELSE IF x.n >= y.n THEN x ELSE y

----------------------------------------------------------------------------
(* Texts: sequences of one-character strings *)

ToLowerChar(ch) ==
  CASE ch = "A" -> "a"
    [] ch = "B" -> "b"
    [] ch = "R" -> "r"
    [] OTHER -> ch

ToLowerCase(str) == [i \in 1..Len(str) |-> ToLowerChar(str[i])]

Whitespace == {" "}
Terminators == {".", "!", "?"}

IsSpace(ch) == ch \in Whitespace

\* String.prototype.substring(0, n)
Substring0(str, n) == SubSeq(str, 1, IF n < Len(str) THEN n ELSE Len(str))

\* String.prototype.includes: word occurs as a substring (the empty word always does)
Includes(str, word) ==
  \E i \in 0..(Len(str) - Len(word)) : SubSeq(str, i + 1, i + Len(word)) = word

\* String.prototype.trim
RECURSIVE TrimStart(_)
TrimStart(str) ==
  IF str # <<>> /\ IsSpace(Head(str)) THEN TrimStart(Tail(str)) ELSE str

RECURSIVE TrimEnd(_)
TrimEnd(str) ==
  IF str # <<>> /\ IsSpace(str[Len(str)]) THEN TrimEnd(SubSeq(str, 1, Len(str) - 1)) ELSE str

Trim(str) == TrimEnd(TrimStart(str))

\* String.prototype.split on a regular expression matching runs of separator
\* characters (/\s+/ and /[.!?]+/): the pieces between maximal runs, including
\* the empty piece before a leading run and after a trailing run.
SplitRuns(str, seps) ==
  LET n == Len(str)
      IsSep(i) == str[i] \in seps
      \* first and last positions of the maximal runs of separators
      starts == {i \in 1..n : IsSep(i) /\ (i = 1 \/ ~IsSep(i - 1))}
      ends == {i \in 1..n : IsSep(i) /\ (i = n \/ ~IsSep(i + 1))}
      Nth(S, k) == CHOOSE x \in S : Cardinality({y \in S : y < x}) = k - 1
      runs == Cardinality(starts)
  IN [k \in 1..(runs + 1) |->
        SubSeq(str,
               IF k = 1 THEN 1 ELSE Nth(ends, k - 1) + 1,
               IF k = runs + 1 THEN n ELSE Nth(starts, k) - 1)]

SplitWhitespace(str) == SplitRuns(str, Whitespace)
SplitSentences(str) == SplitRuns(str, Terminators)

MaxLength == 200     \* default of extractRelevantText's maxLength

Ellipsis == <<".", ".", ".">>

\* claimWords.filter(word => sentenceLower.includes(word)).length
CountMatches(claimWords, sentence) ==
  Cardinality({i \in 1..Len(claimWords) : Includes(ToLowerCase(sentence), claimWords[i])})

\* the loop over sentences: [bestSentence, maxMatches] after the first k sentences
RECURSIVE BestSentence(_, _, _)
BestSentence(claimWords, sentences, k) ==
  IF k = 0 THEN [bestSentence |-> <<>>, maxMatches |-> 0]
  ELSE LET prev == BestSentence(claimWords, sentences, k - 1)
           matches == CountMatches(claimWords, sentences[k])
       IN IF matches > prev.maxMatches
          THEN [bestSentence |-> Trim(sentences[k]), maxMatches |-> matches]
          ELSE prev

ExtractRelevantText(claim, text, maxLength) ==
  LET claimWords == SplitWhitespace(ToLowerCase(claim))
      sentences == SplitSentences(text)
      best == BestSentence(claimWords, sentences, Len(sentences)).bestSentence
  IN IF Len(best) > maxLength THEN Substring0(best, maxLength) \o Ellipsis
     ELSE IF best # <<>> THEN best
     ELSE Substring0(text, maxLength)

----------------------------------------------------------------------------
(* Verdict synthesis: FactChecker.generateFactCheckAnalysis *)

Verdicts == {"TRUE", "FALSE", "PARTIALLY_TRUE", "UNVERIFIED", "MISLEADING"}

FallbackExplanation == "Unable to verify claim due to analysis error. Please review manually."
FallbackConfidence == 1   \* 0.1
Fallback == [raised |-> FALSE, verdict |-> Str("UNVERIFIED"),
             confidence |-> Num(FallbackConfidence),
             explanation |-> Str(FallbackExplanation)]

\* a field of a JSON object text that is not there
Absent == [t |-> "absent", n |-> 0, s |-> ""]

\* What aiService.generateText can do: reject ("throws": the API call failed or
\* the content was empty), or resolve with a text.  A text is described by what
\* it is: not JSON at all, or the JSON text of null, a number, a string, a
\* boolean, an array, or an object with the listed fields.
VerdictFields == {Str(v) : v \in Verdicts} \cup
                 {Str("true"), Str("MOSTLY_TRUE"), Num(One), Null, Absent}
ConfidenceFields == {Num(0 - 3), Num(0), Num(5), Num(One), Num(17),
                     Str("0.5"), Str("high"), Null, Absent}
ExplanationFields == {Str("because"), Absent}

NonObjectKinds == {"null", "number", "string", "boolean", "array"}

ModelOutcomes ==
  {[kind |-> k, verdict |-> Absent, confidence |-> Absent, explanation |-> Absent] :
      k \in {"throws", "notjson"} \cup NonObjectKinds}
  \cup
  {[kind |-> "object", verdict |-> v, confidence |-> c, explanation |-> e] :
      v \in VerdictFields, c \in ConfidenceFields, e \in ExplanationFields}

NoOutcome == [kind |-> "none", verdict |-> Absent, confidence |-> Absent, explanation |-> Absent]

\* JSON.parse: throws SyntaxError on a text that is not JSON
JSONParse(text) ==
  IF text.kind = "notjson" THEN [ok |-> FALSE, value |-> text]
  ELSE [ok |-> TRUE, value |-> text]

\* property read value.name: TypeError on null, undefined when the property is
\* missing or the value is a primitive or an array
GetProperty(value, name) ==
  IF value.kind = "null" THEN [ok |-> FALSE, v |-> Undef]
  ELSE IF value.kind # "object" \/ value[name].t = "absent" THEN [ok |-> TRUE, v |-> Undef]
  ELSE [ok |-> TRUE, v |-> value[name]]

\* variant: the verdict is compared without regard to case
isValidVerdictAnyCase(verdict) ==
  verdict.t = "str" /\ (verdict.s \in Verdicts \/ verdict.s = "true")

\* ['TRUE', ...].includes(verdict)
isValidVerdict(verdict) ==
  verdict.t = "str" /\ verdict.s \in Verdicts

\* the clamp Math.max(0, Math.min(1, analysis.confidence))
ClampConfidence(confidence) == MathMax(Num(0), MathMin(Num(One), confidence))

\* variant: only the rejection of generateText is caught; errors of parsing and
\* validation propagate
generateFactCheckAnalysisNoCatch(outcome) ==
  IF outcome.kind = "throws" THEN Fallback
  ELSE LET parsed == JSONParse(outcome)
           verdict == GetProperty(parsed.value, "verdict")
       IN IF ~parsed.ok \/ ~verdict.ok \/ ~isValidVerdict(verdict.v)
          THEN [Fallback EXCEPT !.raised = TRUE]
          ELSE [raised |-> FALSE,
                verdict |-> verdict.v,
                confidence |-> ClampConfidence(GetProperty(parsed.value, "confidence").v),
                explanation |-> GetProperty(parsed.value, "explanation").v]

\* the body of the try block, after generateText resolved or rejected; the
\* catch block turns every exception into the fallback
generateFactCheckAnalysis(outcome) ==
  IF outcome.kind = "throws" THEN Fallback
  ELSE LET parsed == JSONParse(outcome) IN
    IF ~parsed.ok THEN Fallback
    ELSE LET verdict == GetProperty(parsed.value, "verdict") IN
      IF ~verdict.ok THEN Fallback
      ELSE IF ~isValidVerdict(verdict.v) THEN Fallback
      ELSE [raised |-> FALSE,
            verdict |-> verdict.v,
            confidence |-> ClampConfidence(GetProperty(parsed.value, "confidence").v),
            explanation |-> GetProperty(parsed.value, "explanation").v]

----------------------------------------------------------------------------
(* Filter compiler: ChromaVectorStore.convertFilterToWhere *)

\* The value stored under one key of a filter object (and of a backend where
\* clause): a scalar (isObject FALSE, the scalar in eq) or an operator object
\* with the operators $gte, $lte, $in that are present.
OperatorObject(gte, lte, hasIn, items) ==
  [isObject |-> TRUE, gte |-> gte, lte |-> lte, hasIn |-> hasIn, items |-> items, eq |-> Undef]
Scalar(v) ==
  [isObject |-> FALSE, gte |-> Undef, lte |-> Undef, hasIn |-> FALSE, items |-> {}, eq |-> v]

Gte(v) == OperatorObject(v, Undef, FALSE, {})
Lte(v) == OperatorObject(Undef, v, FALSE, {})
In(items) == OperatorObject(Undef, Undef, TRUE, items)

\* JavaScript truthiness of a scalar
Truthy(v) ==
  CASE v.t \in {"undef", "null", "nan"} -> FALSE
    [] v.t = "num" -> v.n # 0
    [] v.t = "bool" -> v.n # 0
    [] v.t = "str" -> v.s # ""
    [] OTHER -> TRUE

\* variant: a publishedAt range with both bounds is pushed as one clause
ConditionsOfMergedRange(key, value) ==
  IF key = "publishedAt" /\ value.isObject
  THEN (IF Truthy(value.gte) /\ Truthy(value.lte)
        THEN <<[field |-> key, value |-> OperatorObject(value.gte, value.lte, FALSE, {})]>>
        ELSE IF Truthy(value.gte) THEN <<[field |-> key, value |-> Gte(value.gte)]>>
        ELSE IF Truthy(value.lte) THEN <<[field |-> key, value |-> Lte(value.lte)]>>
        ELSE <<>>)
  ELSE IF key = "source" /\ value.hasIn
  THEN <<[field |-> key, value |-> In(value.items)]>>
  ELSE IF key = "category" /\ value.hasIn
  THEN <<[field |-> key, value |-> In(value.items)]>>
  ELSE IF key = "credibilityScore" /\ value.isObject
  THEN (IF value.gte # Undef THEN <<[field |-> key, value |-> Gte(value.gte)]>> ELSE <<>>)
  ELSE <<[field |-> key, value |-> value]>>

\* variant: the credibilityScore bound is tested for truthiness, as the
\* publishedAt bounds are
ConditionsOfTruthyScore(key, value) ==
  IF key = "publishedAt" /\ value.isObject
  THEN (IF Truthy(value.gte) THEN <<[field |-> key, value |-> Gte(value.gte)]>> ELSE <<>>)
       \o (IF Truthy(value.lte) THEN <<[field |-> key, value |-> Lte(value.lte)]>> ELSE <<>>)
  ELSE IF key = "source" /\ value.hasIn
  THEN <<[field |-> key, value |-> In(value.items)]>>
  ELSE IF key = "category" /\ value.hasIn
  THEN <<[field |-> key, value |-> In(value.items)]>>
  ELSE IF key = "credibilityScore" /\ value.isObject
  THEN (IF Truthy(value.gte) THEN <<[field |-> key, value |-> Gte(value.gte)]>> ELSE <<>>)
  ELSE <<[field |-> key, value |-> value]>>

\* conditions pushed for one [key, value] entry of the filter
ConditionsOf(key, value) ==
  IF key = "publishedAt" /\ value.isObject
  THEN (IF Truthy(value.gte) THEN <<[field |-> key, value |-> Gte(value.gte)]>> ELSE <<>>)
       \o (IF Truthy(value.lte) THEN <<[field |-> key, value |-> Lte(value.lte)]>> ELSE <<>>)
  ELSE IF key = "source" /\ value.hasIn
  THEN <<[field |-> key, value |-> In(value.items)]>>
  ELSE IF key = "category" /\ value.hasIn
  THEN <<[field |-> key, value |-> In(value.items)]>>
  ELSE IF key = "credibilityScore" /\ value.isObject
  THEN (IF value.gte # Undef THEN <<[field |-> key, value |-> Gte(value.gte)]>> ELSE <<>>)
  ELSE <<[field |-> key, value |-> value]>>

RECURSIVE Conditions(_)
Conditions(filter) ==
  IF filter = <<>> THEN <<>>
  ELSE ConditionsOf(filter[1].key, filter[1].value) \o Conditions(Tail(filter))

\* variant: a single condition is treated like none
convertFilterToWhereDropSingle(filter) ==
  LET conditions == Conditions(filter) IN
  IF Len(conditions) <= 1 THEN [kind |-> "undefined", conds |-> <<>>]
  ELSE [kind |-> "$and", conds |-> conditions]

\* variant: every non-empty list of conditions is wrapped in $and
convertFilterToWhereAlwaysAnd(filter) ==
  LET conditions == Conditions(filter) IN
  IF Len(conditions) = 0 THEN [kind |-> "undefined", conds |-> <<>>]
  ELSE [kind |-> "$and", conds |-> conditions]

\* a filter is the sequence of its entries, in Object.entries order
convertFilterToWhere(filter) ==
  LET conditions == Conditions(filter) IN
  IF Len(conditions) = 0 THEN [kind |-> "undefined", conds |-> <<>>]
  ELSE IF Len(conditions) = 1 THEN [kind |-> "condition", conds |-> conditions]
  ELSE [kind |-> "$and", conds |-> conditions]

NoWhere == [kind |-> "undefined", conds |-> <<>>]

\* Filter objects handed to searchSimilar.  Dates are ISO strings, as
\* Date.prototype.toISOString produces them (never empty).
DateFrom == Str("2024-01-01T00:00:00.000Z")
DateTo == Str("2024-12-31T00:00:00.000Z")

FilterKeys == {"publishedAt", "source", "category", "credibilityScore", "author"}

FilterValues(key) ==
  CASE key = "publishedAt" ->
         {Gte(DateFrom), Lte(DateTo), OperatorObject(DateFrom, DateTo, FALSE, {}),
          OperatorObject(Undef, Undef, FALSE, {}), In({"2024-01-01T00:00:00.000Z"})}
    [] key = "source" -> {In({"reuters"}), In({}), Scalar(Str("reuters")), Gte(Num(5))}
    [] key = "category" -> {In({"tech", "world"}), Lte(Num(5))}
    [] key = "credibilityScore" ->
         {Gte(Num(0)), Gte(Num(6)), OperatorObject(Num(6), Num(9), FALSE, {}),
          Lte(Num(9)), In({"high"}), Scalar(Num(9))}
    [] OTHER -> {Scalar(Str("ann")), Gte(Num(5))}

\* filter objects with at most MaxFilterKeys keys: each key once, with a value
\* from FilterValues(key)
Filters ==
  LET entries == {[key |-> k, value |-> v] :
                    k \in FilterKeys, v \in UNION {FilterValues(j) : j \in FilterKeys}}
  IN
  {f \in UNION {[1..n -> entries] : n \in 0..MaxFilterKeys} :
     /\ \A i \in 1..Len(f) : f[i].value \in FilterValues(f[i].key)
     /\ \A i, j \in 1..Len(f) : i # j => f[i].key # f[j].key}

----------------------------------------------------------------------------
(* The vector backend (ChromaDB collection): records and query evaluation *)

CredibilityScores == {5, 6, 9}     \* 0.5, 0.6, 0.9
RecordIds == 1..MaxRecords

SourceOf(id) == IF id % 2 = 1 THEN "reuters" ELSE "blog"
\* metadata texts: odd ids carry a summary, even ids only a title
SummaryOf(id) == IF id % 2 = 1 THEN <<"R", "a", "t", "e", " ", "u", "p", ".", " ", "n", "o">> ELSE <<>>
TitleOf(id) == <<"a", " ", "b", "!">>

\* --- the tags metadata field -------------------------------------------
\* A stored metadata value of the tags field: absent, a string (its text), or
\* a number.  A value read back: undefined, a string, a number, null, or an
\* array (its items; an item is a string or a number).
NoTags == [t |-> "undefined", text |-> <<>>, items |-> <<>>]
TagsText(text) == [t |-> "string", text |-> text, items |-> <<>>]
TagsNumber(text) == [t |-> "number", text |-> text, items |-> <<>>]
TagsArray(items) == [t |-> "array", text |-> <<>>, items |-> items]

Quote == "\""

\* JSON.stringify of a string without characters that need escaping
Quoted(text) == <<Quote>> \o text \o <<Quote>>

\* JSON.stringify(article.tags) for an array of strings
RECURSIVE JoinQuoted(_)
JoinQuoted(tags) ==
  IF tags = <<>> THEN <<>>
  ELSE IF Len(tags) = 1 THEN Quoted(tags[1])
  ELSE Quoted(tags[1]) \o <<",">> \o JoinQuoted(Tail(tags))

JSONStringifyTags(tags) == <<"[">> \o JoinQuoted(tags) \o <<"]">>

\* the pieces of a text between commas
RECURSIVE SplitCommas(_, _)
SplitCommas(text, cur) ==
  IF text = <<>> THEN <<cur>>
  ELSE IF Head(text) = "," THEN <<cur>> \o SplitCommas(Tail(text), <<>>)
  ELSE SplitCommas(Tail(text), Append(cur, Head(text)))

\* JSON.parse of a scalar text: a string, a number, null; anything else is a
\* SyntaxError
ParseScalar(text) ==
  LET digits == {"0", "1", "2", "3", "4", "5", "6", "7", "8", "9"}
      isQuoted == /\ Len(text) >= 2 /\ text[1] = Quote /\ text[Len(text)] = Quote
                  /\ \A i \in 2..(Len(text) - 1) : text[i] \notin {Quote, ","}
      isNumeral == text # <<>> /\ \A i \in 1..Len(text) : text[i] \in digits
  IN IF isQuoted THEN [ok |-> TRUE, value |-> TagsText(SubSeq(text, 2, Len(text) - 1))]
     ELSE IF isNumeral THEN [ok |-> TRUE, value |-> TagsNumber(text)]
     ELSE IF text = <<"n", "u", "l", "l">>
     THEN [ok |-> TRUE, value |-> [t |-> "null", text |-> <<>>, items |-> <<>>]]
     ELSE [ok |-> FALSE, value |-> NoTags]

\* JSON.parse of the texts the tags field can hold: a scalar, or an array of
\* scalars written without white space
JSONParseTags(text) ==
  IF Len(text) >= 2 /\ text[1] = "[" /\ text[Len(text)] = "]"
  THEN LET body == SubSeq(text, 2, Len(text) - 1)
           pieces == IF body = <<>> THEN <<>> ELSE SplitCommas(body, <<>>)
       IN IF \A i \in 1..Len(pieces) : ParseScalar(pieces[i]).ok
          THEN [ok |-> TRUE,
                value |-> TagsArray([i \in 1..Len(pieces) |-> ParseScalar(pieces[i]).value])]
          ELSE [ok |-> FALSE, value |-> NoTags]
  ELSE ParseScalar(text)

\* "Parse tags back to array": a non-empty string is replaced by JSON.parse of
\* it, or by [] when JSON.parse throws; any other value is left as it is
ReadTags(stored) ==
  IF stored.t = "string" /\ stored.text # <<>>
  THEN LET parsed == JSONParseTags(stored.text)
       IN IF parsed.ok THEN parsed.value ELSE TagsArray(<<>>)
  ELSE stored

\* the index contents: at most one record per id
IndexContents == [RecordIds -> {0} \cup CredibilityScores]

Metadata(id, cred, tags) ==
  [id |-> id, source |-> SourceOf(id), credibilityScore |-> cred,
   summary |-> SummaryOf(id), title |-> TitleOf(id), tags |-> tags]

RecordsOf(idx) == {id \in RecordIds : idx[id] # 0}

MetaField(idx, id, field) ==
  CASE field = "credibilityScore" -> Num(idx[id])
    [] field = "source" -> Str(SourceOf(id))
    [] OTHER -> Undef

\* evaluation of one where condition on a record by the backend
ConditionHolds(idx, id, cond) ==
  LET m == MetaField(idx, id, cond.field)
      v == cond.value
  IN IF ~v.isObject THEN m = v.eq
     ELSE /\ (v.gte # Undef => (m.t = "num" /\ v.gte.t = "num" /\ m.n >= v.gte.n))
          /\ (v.lte # Undef => (m.t = "num" /\ v.lte.t = "num" /\ m.n <= v.lte.n))
          /\ (v.hasIn => (m.t = "str" /\ m.s \in v.items))

WhereHolds(idx, id, where) ==
  \A i \in 1..Len(where.conds) : ConditionHolds(idx, id, where.conds[i])

\* ids in order of increasing distance to the query embedding (the distance of
\* record id is id tenths), restricted to a set
RECURSIVE Ordered(_, _)
Ordered(ids, k) ==
  IF k > MaxRecords THEN <<>>
  ELSE (IF k \in ids THEN <<k>> ELSE <<>>) \o Ordered(ids, k + 1)

\* collection.query({queryEmbeddings, nResults, where, include})
BackendQuery(idx, nResults, where) ==
  LET hits == Ordered({id \in RecordsOf(idx) : WhereHolds(idx, id, where)}, 1)
  IN SubSeq(hits, 1, IF nResults < Len(hits) THEN nResults ELSE Len(hits))

\* searchSimilar's formatting of the backend answer
FormatResults(idx, stored, hits) ==
  [i \in 1..Len(hits) |->
     [id |-> hits[i], score |-> One - hits[i],
      metadata |-> Metadata(hits[i], idx[hits[i]], ReadTags(stored[hits[i]]))]]

----------------------------------------------------------------------------
(* Provider selection: AIService.getInstance *)

ProviderNames == {"gemini", "openai", "other"}   \* "other": any value the switch has no case for
Envs == [AI_PROVIDER : ProviderNames, GEMINI_API_KEY : BOOLEAN, OPENAI_API_KEY : BOOLEAN]

NoProviderError == "No AI provider available"

\* variant: AI_PROVIDER is ignored, the first configured provider wins
SelectProviderAutoDetect(e) ==
  IF e.GEMINI_API_KEY THEN [kind |-> "gemini", warn |-> FALSE]
  ELSE IF e.OPENAI_API_KEY THEN [kind |-> "openai", warn |-> TRUE]
  ELSE [kind |-> "none", warn |-> FALSE]

\* the switch of getInstance: which provider class is instantiated, and whether
\* the fallback warning is emitted; kind "none" is the thrown error
SelectProvider(e) ==
  CASE e.AI_PROVIDER = "gemini" ->
         IF e.GEMINI_API_KEY THEN [kind |-> "gemini", warn |-> FALSE]
         ELSE IF e.OPENAI_API_KEY THEN [kind |-> "openai", warn |-> TRUE]
         ELSE [kind |-> "none", warn |-> FALSE]
    [] e.AI_PROVIDER = "openai" ->
         IF e.OPENAI_API_KEY THEN [kind |-> "openai", warn |-> FALSE]
         ELSE IF e.GEMINI_API_KEY THEN [kind |-> "gemini", warn |-> TRUE]
         ELSE [kind |-> "none", warn |-> FALSE]
    [] OTHER ->
         IF e.GEMINI_API_KEY THEN [kind |-> "gemini", warn |-> FALSE]
         ELSE IF e.OPENAI_API_KEY THEN [kind |-> "openai", warn |-> FALSE]
         ELSE [kind |-> "none", warn |-> FALSE]

\* a provider object: its class and its identity (the order of construction)
NoInstance == [kind |-> "none", id |-> 0]

\* variant: without the final error branch the preferred provider is
\* constructed and its constructor throws for the missing key
getInstanceConstructsFirst(inst, e, provs, warns) ==
  IF inst # NoInstance
  THEN [ok |-> TRUE, instance |-> inst, providers |-> provs, warnings |-> warns]
  ELSE LET sel == SelectProvider(e)
           made == [kind |-> sel.kind, id |-> Len(provs) + 1]
       IN IF sel.kind = "none"
          THEN [ok |-> FALSE, instance |-> inst,
                providers |-> Append(provs, "gemini"), warnings |-> warns]
          ELSE [ok |-> TRUE, instance |-> made,
                providers |-> Append(provs, sel.kind),
                warnings |-> IF sel.warn THEN warns \cup {made.id} ELSE warns]

\* variant: the cached instance is used only while the configuration still
\* selects its class
getInstanceNoCache(inst, e, provs, warns) ==
  LET sel == SelectProvider(e)
      made == [kind |-> sel.kind, id |-> Len(provs) + 1]
  IN IF inst # NoInstance /\ inst.kind = sel.kind
     THEN [ok |-> TRUE, instance |-> inst, providers |-> provs, warnings |-> warns]
     ELSE IF sel.kind = "none"
          THEN [ok |-> FALSE, instance |-> inst, providers |-> provs, warnings |-> warns]
          ELSE [ok |-> TRUE, instance |-> made,
                providers |-> Append(provs, sel.kind),
                warnings |-> IF sel.warn THEN warns \cup {made.id} ELSE warns]

\* getInstance on the state (inst, provs, warns) under configuration e: the
\* cached instance is returned when there is one; otherwise the switch runs,
\* the chosen provider is constructed and cached, or the error is thrown and
\* nothing is cached.
getInstance(inst, e, provs, warns) ==
  IF inst # NoInstance
  THEN [ok |-> TRUE, instance |-> inst, providers |-> provs, warnings |-> warns]
  ELSE LET sel == SelectProvider(e)
           made == [kind |-> sel.kind, id |-> Len(provs) + 1]
       IN IF sel.kind = "none"
          THEN [ok |-> FALSE, instance |-> inst, providers |-> provs, warnings |-> warns]
          ELSE [ok |-> TRUE, instance |-> made,
                providers |-> Append(provs, sel.kind),
                warnings |-> IF sel.warn THEN warns \cup {made.id} ELSE warns]

NoService == [made |-> FALSE, aiService |-> NoInstance]

\* getEmbeddingsService(): embeddingsService ??= new EmbeddingsService()
getEmbeddingsService(es, inst, e, provs, warns) ==
  IF es.made
  THEN [ok |-> TRUE, embeddingsService |-> es, instance |-> inst,
        providers |-> provs, warnings |-> warns]
  ELSE LET g == getInstance(inst, e, provs, warns)
       IN [ok |-> g.ok,
           embeddingsService |-> IF g.ok THEN [made |-> TRUE, aiService |-> g.instance] ELSE es,
           instance |-> g.instance, providers |-> g.providers, warnings |-> g.warnings]

\* getFactChecker(): if (!factChecker) factChecker = new FactChecker(); the
\* constructor calls getAIService(), getChromaVectorStore(), getEmbeddingsService()
getFactChecker(fc, es, inst, e, provs, warns) ==
  IF fc.made
  THEN [ok |-> TRUE, factChecker |-> fc, embeddingsService |-> es, instance |-> inst,
        providers |-> provs, warnings |-> warns]
  ELSE LET g == getInstance(inst, e, provs, warns)
           h == getEmbeddingsService(es, g.instance, e, g.providers, g.warnings)
       IN IF ~g.ok
          THEN [ok |-> FALSE, factChecker |-> fc, embeddingsService |-> es, instance |-> inst,
                providers |-> provs, warnings |-> warns]
          ELSE [ok |-> h.ok,
                factChecker |-> IF h.ok THEN [made |-> TRUE, aiService |-> g.instance] ELSE fc,
                embeddingsService |-> h.embeddingsService, instance |-> h.instance,
                providers |-> h.providers, warnings |-> h.warnings]

----------------------------------------------------------------------------
(* State *)

Claims == {<<"R", "a", "t", "e", " ", "u", "p">>, <<"b">>}
ArticleIds == {"", "article-1"}     \* "" stands for an omitted articleId

TopK == 10            \* topK passed by checkClaim
CredibilityFloor == 6 \* 0.6, the $gte bound passed by checkClaim

NoResult ==
  [articleId |-> "", claim |-> <<>>, verdict |-> Undef, confidence |-> Undef,
   supportingEvidence |-> <<>>, explanation |-> Undef]

\* the answer of the completion request of extractClaims: the request rejects,
\* or it returns a text that is not JSON, or JSON of some kind; an array has
\* items
NoResponse == [kind |-> "none", items |-> <<>>]

\* getArticle's result: null, or {id, metadata}
NotFound == [isNull |-> TRUE, id |-> 0, metadata |-> Metadata(0, 0, NoTags)]

NoLocal ==
  [claim |-> <<>>, articleId |-> "", provider |-> NoInstance,
   handle |-> 0, nResults |-> 0, where |-> NoWhere,
   prompt |-> <<>>, outcome |-> NoOutcome, result |-> NoResult,
   filterGiven |-> FALSE, filter |-> <<>>, results |-> <<>>,
   articles |-> <<>>, ids |-> <<>>, found |-> NotFound,
   response |-> NoResponse, claims |-> <<>>,
   texts |-> <<>>, i |-> 0, returned |-> NoResponse,
   embedding1 |-> <<>>, embedding2 |-> <<>>,
   body |-> [claim |-> <<>>, text |-> <<>>, articleId |-> ""], status |-> 0, code |-> ""]

\* a caller that runs no operation, or one without local variables, has the
\* handle returned by ensureCollection only
IdleLocal == [handle |-> 0]

Call(name, target) == [name |-> name, target |-> target]

\* the backend holds a collection (uid > 0) or none (uid = 0); creations counts
\* the collections ever created on it
StoreInits ==
  {[backend |-> [uid |-> 0, creations |-> 0], index |-> [id \in RecordIds |-> 0]]}
  \cup {[backend |-> [uid |-> 1, creations |-> 1], index |-> idx] : idx \in IndexContents}

\* records found in the collection at the start were written by upsertArticle
\* with an empty tag list; no write has been applied in this behaviour
NoWrite == [kind |-> "none", credibilityScore |-> 0, tags |-> <<>>]

InitRecords ==
  /\ tagsField = [id \in RecordIds |->
                    IF index[id] = 0 THEN NoTags ELSE TagsText(JSONStringifyTags(<<>>))]
  /\ lastWrite = [id \in RecordIds |-> NoWrite]

InitCallers ==
  /\ pc = [c \in Callers |-> "idle"]
  /\ op = [c \in Callers |-> "none"]
  /\ proc = [c \in Callers |-> MainProc]
  /\ calls = [c \in Callers |-> <<>>]
  /\ errs = [c \in Callers |-> <<>>]
  /\ local = [c \in Callers |-> IdleLocal]

InitRouter ==
  /\ instance = NoInstance
  /\ providers = <<>>
  /\ warnings = {}
  /\ factChecker = NoService
  /\ embeddingsService = NoService
  /\ envChanges = 0

Init ==
  /\ env \in Envs
  /\ InitRouter
  /\ \E st \in StoreInits : backend = st.backend /\ index = st.index
  /\ InitRecords
  /\ collection = [p \in Procs |-> 0]
  /\ assigned = [p \in Procs |-> 0]
  /\ InitCallers

----------------------------------------------------------------------------
(* ChromaVectorStore.ensureCollection, one action per suspension point *)

\* the collection method a store operation calls once it has the handle
BackendCallOf(operation) ==
  CASE operation \in {"upsertArticle", "upsertArticles"} -> "upsert"
    [] operation \in {"deleteArticle", "deleteArticles"} -> "delete"
    [] operation = "getArticle" -> "get"
    [] operation \in {"searchSimilar", "checkClaim"} -> "query"
    [] OTHER -> "count"

\* searchSimilar: let whereClause = undefined; if (filter) whereClause = convert...
whereClause(filterGiven, filter) ==
  IF filterGiven THEN convertFilterToWhere(filter) ELSE NoWhere

\* what a caller does once ensureCollection has returned the handle h
AfterEnsure(c, h) ==
  IF op'[c] = "checkClaim"
  THEN /\ pc' = [pc EXCEPT ![c] = "query"]
       /\ calls' = [calls EXCEPT ![c] = Append(@, Call("query", 0))]
       /\ local' = [local EXCEPT ![c].handle = h,
                                 ![c].nResults = TopK,
                                 ![c].where = convertFilterToWhere(
                                     <<[key |-> "credibilityScore",
                                        value |-> Gte(Num(CredibilityFloor))]>>)]
  ELSE IF op'[c] = "searchSimilar"
  THEN /\ pc' = [pc EXCEPT ![c] = "query"]
       /\ calls' = [calls EXCEPT ![c] = Append(@, Call("query", 0))]
       /\ local' = [local EXCEPT ![c].handle = h,
                                 ![c].where = whereClause(local[c].filterGiven, local[c].filter)]
  ELSE /\ pc' = [pc EXCEPT ![c] = BackendCallOf(op'[c])]
       /\ calls' = [calls EXCEPT ![c] = Append(@, Call(BackendCallOf(op'[c]), 0))]
       /\ local' = [local EXCEPT ![c].handle = h]

\* entry of ensureCollection: the cached handle is returned at once, otherwise
\* getCollection is issued
EnterEnsure(c) ==
  IF collection[proc'[c]] # 0
  THEN /\ AfterEnsure(c, collection[proc'[c]])
       /\ UNCHANGED <<collection, assigned>>
  ELSE /\ pc' = [pc EXCEPT ![c] = "getCollection"]
       /\ calls' = [calls EXCEPT ![c] = Append(@, Call("getCollection", 0))]
       /\ UNCHANGED <<collection, assigned, local>>

Fail(c, error) ==
  /\ pc' = [pc EXCEPT ![c] = "failed"]
  /\ errs' = [errs EXCEPT ![c] = Append(@, error)]

\* this.collection = await this.client.getCollection(...): resolves when the
\* backend holds the collection; any rejection leads to createCollection
GetCollectionDone(c) ==
  /\ pc[c] = "getCollection"
  /\ UNCHANGED <<op, proc, routerVars, backend, index, tagsField, lastWrite>>
  /\ \/ /\ backend.uid # 0
        /\ collection' = [collection EXCEPT ![proc[c]] = backend.uid]
        /\ assigned' = [assigned EXCEPT ![proc[c]] = @ + 1]
        /\ AfterEnsure(c, backend.uid)
        /\ UNCHANGED errs
     \/ /\ \E error \in (IF backend.uid = 0 THEN {"not found"} ELSE {}) \cup {"network"} :
             errs' = [errs EXCEPT ![c] = Append(@, error)]
        /\ pc' = [pc EXCEPT ![c] = "createCollection"]
        /\ calls' = [calls EXCEPT ![c] = Append(@, Call("createCollection", 0))]
        /\ UNCHANGED <<collection, assigned, local>>

\* variant: every rejection of createCollection is rethrown
CreateCollectionDoneNoRefetch(c) ==
  /\ pc[c] = "createCollection"
  /\ UNCHANGED <<op, proc, routerVars>>
  /\ \/ /\ backend.uid = 0
        /\ backend' = [uid |-> backend.creations + 1, creations |-> backend.creations + 1]
        /\ index' = [id \in RecordIds |-> 0]
        /\ tagsField' = [id \in RecordIds |-> NoTags]
        /\ UNCHANGED lastWrite
        /\ collection' = [collection EXCEPT ![proc[c]] = backend'.uid]
        /\ assigned' = [assigned EXCEPT ![proc[c]] = @ + 1]
        /\ AfterEnsure(c, backend'.uid)
        /\ UNCHANGED errs
     \/ /\ backend.uid # 0
        /\ Fail(c, "already exists")
        /\ UNCHANGED <<backend, index, tagsField, lastWrite, collection, assigned, local, calls>>
     \/ /\ Fail(c, "network")
        /\ UNCHANGED <<backend, index, tagsField, lastWrite, collection, assigned, local, calls>>

\* this.collection = await this.client.createCollection(...): creates the
\* collection when there is none; 'already exists' leads to the second
\* getCollection; any other error is rethrown
CreateCollectionDone(c) ==
  /\ pc[c] = "createCollection"
  /\ UNCHANGED <<op, proc, routerVars>>
  /\ \/ /\ backend.uid = 0
        /\ backend' = [uid |-> backend.creations + 1, creations |-> backend.creations + 1]
        /\ index' = [id \in RecordIds |-> 0]
        /\ tagsField' = [id \in RecordIds |-> NoTags]
        /\ UNCHANGED lastWrite
        /\ collection' = [collection EXCEPT ![proc[c]] = backend'.uid]
        /\ assigned' = [assigned EXCEPT ![proc[c]] = @ + 1]
        /\ AfterEnsure(c, backend'.uid)
        /\ UNCHANGED errs
     \/ /\ backend.uid # 0
        /\ errs' = [errs EXCEPT ![c] = Append(@, "already exists")]
        /\ pc' = [pc EXCEPT ![c] = "refetch"]
        /\ calls' = [calls EXCEPT ![c] = Append(@, Call("getCollection", 0))]
        /\ UNCHANGED <<backend, index, tagsField, lastWrite, collection, assigned, local>>
     \/ /\ Fail(c, "network")
        /\ UNCHANGED <<backend, index, tagsField, lastWrite, collection, assigned, local, calls>>

\* the getCollection after 'already exists'; its rejection is not caught
RefetchDoneCachesFailure(c) ==
  /\ pc[c] = "refetch"
  /\ UNCHANGED <<op, proc, routerVars, backend, index, tagsField, lastWrite>>
  /\ \/ /\ backend.uid # 0
        /\ collection' = [collection EXCEPT ![proc[c]] = backend.uid]
        /\ assigned' = [assigned EXCEPT ![proc[c]] = @ + 1]
        /\ AfterEnsure(c, backend.uid)
        /\ UNCHANGED errs
     \/ /\ \E error \in (IF backend.uid = 0 THEN {"not found"} ELSE {}) \cup {"network"} :
             Fail(c, error)
        /\ collection' = [collection EXCEPT ![proc[c]] = backend.creations + 1]
        /\ UNCHANGED <<assigned, local, calls>>

RefetchDone(c) ==
  /\ pc[c] = "refetch"
  /\ UNCHANGED <<op, proc, routerVars, backend, index, tagsField, lastWrite>>
  /\ \/ /\ backend.uid # 0
        /\ collection' = [collection EXCEPT ![proc[c]] = backend.uid]
        /\ assigned' = [assigned EXCEPT ![proc[c]] = @ + 1]
        /\ AfterEnsure(c, backend.uid)
        /\ UNCHANGED errs
     \/ /\ \E error \in (IF backend.uid = 0 THEN {"not found"} ELSE {}) \cup {"network"} :
             Fail(c, error)
        /\ UNCHANGED <<collection, assigned, local, calls>>

\* getIndexStats: ensureCollection, then collection.count()
StartGetIndexStats(c) ==
  /\ pc[c] = "idle"
  /\ \E p \in Procs : proc' = [proc EXCEPT ![c] = p]
  /\ op' = [op EXCEPT ![c] = "getIndexStats"]
  /\ EnterEnsure(c)
  /\ UNCHANGED <<routerVars, backend, index, tagsField, lastWrite, errs>>

CountDone(c) ==
  /\ pc[c] = "count"
  /\ \/ /\ local[c].handle = backend.uid
        /\ pc' = [pc EXCEPT ![c] = "returned"]
        /\ UNCHANGED errs
     \/ Fail(c, "network")
  /\ UNCHANGED <<op, proc, routerVars, storeVars, calls, local>>

----------------------------------------------------------------------------
(* FactChecker.checkClaim, one action per suspension point *)

\* getFactChecker() and the synchronous start of checkClaim, up to the
\* embedding request of createQueryEmbedding
StartCheckClaim(c, claims) ==
  /\ pc[c] = "idle"
  /\ op' = [op EXCEPT ![c] = "checkClaim"]
  /\ proc' = [proc EXCEPT ![c] = MainProc]
  /\ \E claim \in claims, articleId \in ArticleIds :
       LET g == getFactChecker(factChecker, embeddingsService, instance, env, providers, warnings)
       IN /\ factChecker' = g.factChecker
          /\ embeddingsService' = g.embeddingsService
          /\ instance' = g.instance
          /\ providers' = g.providers
          /\ warnings' = g.warnings
          /\ local' = [local EXCEPT ![c] = [NoLocal EXCEPT !.claim = claim, !.articleId = articleId]]
          /\ IF g.ok
             THEN /\ pc' = [pc EXCEPT ![c] = "embed"]
                  /\ calls' = [calls EXCEPT ![c] =
                                 <<Call("embed", g.embeddingsService.aiService.id)>>]
                  /\ UNCHANGED errs
             ELSE /\ Fail(c, NoProviderError)
                  /\ UNCHANGED calls
  /\ UNCHANGED <<env, envChanges, storeVars>>

\* a direct call of the exported getAIService()
GetAIService(c) ==
  /\ pc[c] = "idle"
  /\ op' = [op EXCEPT ![c] = "getAIService"]
  /\ proc' = [proc EXCEPT ![c] = MainProc]
  /\ LET g == getInstance(instance, env, providers, warnings)
     IN /\ instance' = g.instance
        /\ providers' = g.providers
        /\ warnings' = g.warnings
        /\ IF g.ok
           THEN /\ pc' = [pc EXCEPT ![c] = "returned"]
                /\ local' = [local EXCEPT ![c] = [NoLocal EXCEPT !.provider = g.instance]]
                /\ UNCHANGED errs
           ELSE /\ Fail(c, NoProviderError)
                /\ UNCHANGED local
  /\ UNCHANGED <<env, envChanges, factChecker, embeddingsService, storeVars, calls>>

\* health check's checkEmbeddings: getEmbeddingsService(), then createEmbedding
StartCheckEmbeddings(c) ==
  /\ pc[c] = "idle"
  /\ op' = [op EXCEPT ![c] = "checkEmbeddings"]
  /\ proc' = [proc EXCEPT ![c] = MainProc]
  /\ LET g == getEmbeddingsService(embeddingsService, instance, env, providers, warnings)
     IN /\ embeddingsService' = g.embeddingsService
        /\ instance' = g.instance
        /\ providers' = g.providers
        /\ warnings' = g.warnings
        /\ IF g.ok
           THEN /\ pc' = [pc EXCEPT ![c] = "embed"]
                /\ calls' = [calls EXCEPT ![c] =
                               <<Call("embed", g.embeddingsService.aiService.id)>>]
                /\ UNCHANGED errs
           ELSE /\ Fail(c, NoProviderError)
                /\ UNCHANGED calls
  /\ UNCHANGED <<env, envChanges, factChecker, storeVars, local>>

\* variant: the rejection of the embedding request is logged and checkClaim
\* goes on
EmbedDoneContinues(c) ==
  /\ pc[c] = "embed"
  /\ UNCHANGED <<op, proc, routerVars, backend, index, tagsField, lastWrite>>
  /\ \/ /\ op[c] = "checkClaim"
        /\ EnterEnsure(c)
        /\ \/ UNCHANGED errs
           \/ errs' = [errs EXCEPT ![c] = Append(@, "Failed to create embedding")]
     \/ /\ op[c] = "checkEmbeddings"
        /\ pc' = [pc EXCEPT ![c] = "returned"]
        /\ UNCHANGED <<collection, assigned, local, calls, errs>>
     \/ /\ op[c] = "checkEmbeddings"
        /\ Fail(c, "Failed to create embedding")
        /\ UNCHANGED <<collection, assigned, local, calls>>

\* the embedding request returns: on success checkClaim goes on to
\* searchSimilar (ensureCollection first); a rejection, or a response without a
\* vector, fails the operation
EmbedDone(c) ==
  /\ pc[c] = "embed"
  /\ UNCHANGED <<op, proc, routerVars, backend, index, tagsField, lastWrite>>
  /\ \/ /\ op[c] = "checkClaim"
        /\ EnterEnsure(c)
        /\ UNCHANGED errs
     \/ /\ op[c] = "checkEmbeddings"
        /\ pc' = [pc EXCEPT ![c] = "returned"]
        /\ UNCHANGED <<collection, assigned, local, calls, errs>>
     \/ /\ Fail(c, "Failed to create embedding")
        /\ UNCHANGED <<collection, assigned, local, calls>>

\* evidenceResults.map(...) of checkClaim
SupportingEvidence(claim, results) ==
  [i \in 1..Len(results) |->
     [articleId |-> results[i].id,
      relevantText |-> ExtractRelevantText(claim,
                         IF results[i].metadata.summary # <<>>
                         THEN results[i].metadata.summary
                         ELSE results[i].metadata.title, MaxLength),
      source |-> results[i].metadata.source,
      credibilityScore |-> results[i].metadata.credibilityScore]]

\* evidenceTexts of generateFactCheckAnalysis: one entry per evidence item
EvidenceTexts(evidence) ==
  [i \in 1..Len(evidence) |->
     [source |-> evidence[i].source, credibility |-> evidence[i].credibilityScore,
      text |-> evidence[i].relevantText]]

\* collection.query returns: the results are formatted, mapped to evidence, the
\* prompt is built and the completion request is issued; a rejection fails
\* checkClaim
QueryDone(c) ==
  /\ pc[c] = "query"
  /\ op[c] = "checkClaim"
  /\ UNCHANGED <<op, proc, routerVars, storeVars>>
  /\ \/ /\ local[c].handle = backend.uid
        /\ LET results == FormatResults(index, tagsField,
                            BackendQuery(index, local[c].nResults, local[c].where))
               evidence == SupportingEvidence(local[c].claim, results)
           IN local' = [local EXCEPT ![c].result.supportingEvidence = evidence,
                                     ![c].prompt = EvidenceTexts(evidence)]
        /\ pc' = [pc EXCEPT ![c] = "generateText"]
        /\ calls' = [calls EXCEPT ![c] = Append(@, Call("generateText", factChecker.aiService.id))]
        /\ UNCHANGED errs
     \/ /\ Fail(c, "query failed")
        /\ UNCHANGED <<local, calls>>

\* the completion request returns or rejects; generateFactCheckAnalysis yields
\* the analysis and checkClaim assembles the result
GenerateTextDone(c, outcomes) ==
  /\ pc[c] = "generateText"
  /\ UNCHANGED <<op, proc, routerVars, storeVars, calls>>
  /\ \E outcome \in outcomes :
       LET analysis == generateFactCheckAnalysis(outcome)
       IN IF analysis.raised
          THEN /\ Fail(c, "Failed to check claim")
               /\ local' = [local EXCEPT ![c].outcome = outcome]
          ELSE /\ pc' = [pc EXCEPT ![c] = "returned"]
               /\ local' = [local EXCEPT ![c].outcome = outcome,
                                         ![c].result.articleId = local[c].articleId,
                                         ![c].result.claim = local[c].claim,
                                         ![c].result.verdict = analysis.verdict,
                                         ![c].result.confidence = analysis.confidence,
                                         ![c].result.explanation = analysis.explanation]
               /\ UNCHANGED errs

\* the operation is over; the caller slot is free for the next one
Finish(c) ==
  /\ pc[c] \in {"returned", "failed", "responded"}
  /\ pc' = [pc EXCEPT ![c] = "idle"]
  /\ op' = [op EXCEPT ![c] = "none"]
  /\ calls' = [calls EXCEPT ![c] = <<>>]
  /\ errs' = [errs EXCEPT ![c] = <<>>]
  /\ local' = [local EXCEPT ![c] = IdleLocal]
  /\ UNCHANGED <<proc, routerVars, storeVars>>

\* another process sharing the backend creates the collection
OtherProcessCreates ==
  /\ backend.uid = 0
  /\ backend' = [uid |-> backend.creations + 1, creations |-> backend.creations + 1]
  /\ index' = [id \in RecordIds |-> 0]
  /\ tagsField' = [id \in RecordIds |-> NoTags]
  /\ UNCHANGED <<lastWrite, routerVars, collection, assigned, pc, op, proc, calls, errs, local>>

----------------------------------------------------------------------------
(* Specification of one process serving requests one at a time *)

Next ==
  \/ \E c \in Requests : StartCheckClaim(c, Claims)
  \/ \E c \in Requests : StartCheckEmbeddings(c)
  \/ \E c \in Requests : EmbedDone(c)
  \/ \E c \in Requests : GetCollectionDone(c)
  \/ \E c \in Requests : CreateCollectionDone(c)
  \/ \E c \in Requests : RefetchDone(c)
  \/ \E c \in Requests : QueryDone(c)
  \/ \E c \in Requests : GenerateTextDone(c, ModelOutcomes)
  \/ \E c \in Requests : Finish(c)
  \/ OtherProcessCreates

Spec == Init /\ [][Next]_vars

----------------------------------------------------------------------------
(* Specification of the provider router under configuration changes *)

\* the configuration changes (the keys or AI_PROVIDER are set or unset)
SetEnv ==
  /\ envChanges < MaxEnvChanges
  /\ env' \in Envs \ {env}
  /\ envChanges' = envChanges + 1
  /\ UNCHANGED <<instance, providers, warnings, factChecker, embeddingsService,
                 storeVars, pc, op, proc, calls, errs, local>>

\* AIService.reset()
Reset ==
  /\ Len(providers) < MaxProviders
  /\ instance # NoInstance
  /\ instance' = NoInstance
  /\ UNCHANGED <<env, providers, warnings, factChecker, embeddingsService, envChanges,
                 storeVars, pc, op, proc, calls, errs, local>>

\* no router property depends on the claim text or on the answer of the model:
\* one claim, and one answer of each kind
RouterClaims == {<<"b">>}
RouterOutcomes ==
  {o \in ModelOutcomes :
     \/ o.kind = "throws"
     \/ /\ o.kind = "object"
        /\ o.verdict = Str("TRUE") /\ o.confidence = Num(5) /\ o.explanation = Str("because")}

InitRouterSpec ==
  /\ env \in Envs
  /\ InitRouter
  /\ backend = [uid |-> 1, creations |-> 1]
  /\ index = [id \in RecordIds |-> CHOOSE s \in CredibilityScores : \A t \in CredibilityScores : s >= t]
  /\ InitRecords
  /\ collection = [p \in Procs |-> 0]
  /\ assigned = [p \in Procs |-> 0]
  /\ InitCallers

NextRouter ==
  \/ SetEnv
  \/ Reset
  \/ \E c \in Requests : StartCheckClaim(c, RouterClaims)
  \/ \E c \in Requests : StartCheckEmbeddings(c)
  \/ \E c \in Requests : GetAIService(c)
  \/ \E c \in Requests : EmbedDone(c)
  \/ \E c \in Requests : GetCollectionDone(c)
  \/ \E c \in Requests : CreateCollectionDone(c)
  \/ \E c \in Requests : RefetchDone(c)
  \/ \E c \in Requests : QueryDone(c)
  \/ \E c \in Requests : GenerateTextDone(c, RouterOutcomes)
  \/ \E c \in Requests : Finish(c)

SpecRouter == InitRouterSpec /\ [][NextRouter]_vars

----------------------------------------------------------------------------
(* Specification of concurrent callers of the vector store, in one process *)
(* or in several processes sharing the backend                             *)

InitStoreSpec ==
  /\ env = [AI_PROVIDER |-> "gemini", GEMINI_API_KEY |-> TRUE, OPENAI_API_KEY |-> FALSE]
  /\ InitRouter
  /\ \E uid \in {0, 1} : backend = [uid |-> uid, creations |-> uid]
  /\ index = [id \in RecordIds |-> 0]
  /\ InitRecords
  /\ collection = [p \in Procs |-> 0]
  /\ assigned = [p \in Procs |-> 0]
  /\ InitCallers

NextStore ==
  \/ \E c \in Callers : StartGetIndexStats(c)
  \/ \E c \in Callers : GetCollectionDone(c)
  \/ \E c \in Callers : CreateCollectionDone(c)
  \/ \E c \in Callers : RefetchDone(c)
  \/ \E c \in Callers : CountDone(c)
  \/ \E c \in Callers : Finish(c)

SpecStore == InitStoreSpec /\ [][NextStore]_vars

----------------------------------------------------------------------------
(* Writes and point lookups of ChromaVectorStore *)

\* the elements of an array
Range(seq) == {seq[i] : i \in 1..Len(seq)}

\* articles handed to upsertArticle and upsertArticles (publishedAt is a valid
\* date); an article comes in versions that differ in credibilityScore and tags
Articles ==
  LET versions ==
        {[credibilityScore |-> 9, tags |-> <<>>],
         [credibilityScore |-> 6, tags |-> <<<<"n", "e", "w", "s">>>>],
         [credibilityScore |-> 9, tags |-> <<<<"n", "u", "l", "l">>, <<"r", "a", "t", "e">>>>]}
  IN {[id |-> id, credibilityScore |-> v.credibilityScore, tags |-> v.tags] :
        id \in RecordIds, v \in versions}

\* the synchronous start of a store operation with its arguments: the cached
\* handle is used at once, otherwise ensureCollection issues getCollection
StartStoreOp(c, operation, args) ==
  /\ pc[c] = "idle"
  /\ op' = [op EXCEPT ![c] = operation]
  /\ proc' = [proc EXCEPT ![c] = MainProc]
  /\ IF collection[MainProc] # 0
     THEN /\ local' = [local EXCEPT ![c] = [args EXCEPT !.handle = collection[MainProc]]]
          /\ pc' = [pc EXCEPT ![c] = BackendCallOf(operation)]
          /\ calls' = [calls EXCEPT ![c] = <<Call(BackendCallOf(operation), 0)>>]
     ELSE /\ local' = [local EXCEPT ![c] = args]
          /\ pc' = [pc EXCEPT ![c] = "getCollection"]
          /\ calls' = [calls EXCEPT ![c] = <<Call("getCollection", 0)>>]
  /\ UNCHANGED <<routerVars, storeVars, errs>>

StartUpsertArticle(c) ==
  \E article \in Articles :
    StartStoreOp(c, "upsertArticle", [NoLocal EXCEPT !.articles = <<article>>])

StartUpsertArticles(c) ==
  \* a batch holds each id at most once
  \E batch \in {b \in UNION {[1..n -> Articles] : n \in 0..MaxBatch} :
                  \A i, j \in 1..Len(b) : i # j => b[i].id # b[j].id} :
    StartStoreOp(c, "upsertArticles", [NoLocal EXCEPT !.articles = batch])

StartDeleteArticle(c) ==
  \E id \in RecordIds :
    StartStoreOp(c, "deleteArticle", [NoLocal EXCEPT !.ids = <<id>>])

StartDeleteArticles(c) ==
  \E ids \in {l \in UNION {[1..n -> RecordIds] : n \in 0..MaxBatch} :
                \A i, j \in 1..Len(l) : i # j => l[i] # l[j]} :
    StartStoreOp(c, "deleteArticles", [NoLocal EXCEPT !.ids = ids])

StartGetArticle(c) ==
  \E id \in RecordIds :
    StartStoreOp(c, "getArticle", [NoLocal EXCEPT !.ids = <<id>>])

\* the article of a batch that carries the given id
ArticleWithId(batch, id) == CHOOSE a \in Range(batch) : a.id = id

\* variant: records that exist are left as they are (an insert, not an upsert)
UpsertDoneInsertOnly(c) ==
  /\ pc[c] = "upsert"
  /\ UNCHANGED <<op, proc, routerVars, collection, backend, assigned, calls, local>>
  /\ \/ /\ local[c].handle = backend.uid
        /\ LET batch == local[c].articles
               ids == {a.id : a \in Range(batch)}
           IN /\ index' = [id \in RecordIds |->
                             IF id \in ids /\ index[id] = 0
                             THEN ArticleWithId(batch, id).credibilityScore ELSE index[id]]
              /\ tagsField' = [id \in RecordIds |->
                                 IF id \in ids /\ index[id] = 0
                                 THEN TagsText(JSONStringifyTags(ArticleWithId(batch, id).tags))
                                 ELSE tagsField[id]]
              /\ lastWrite' = [id \in RecordIds |->
                                 IF id \in ids
                                 THEN [kind |-> "upsert",
                                       credibilityScore |-> ArticleWithId(batch, id).credibilityScore,
                                       tags |-> ArticleWithId(batch, id).tags]
                                 ELSE lastWrite[id]]
        /\ pc' = [pc EXCEPT ![c] = "returned"]
        /\ UNCHANGED errs
     \/ /\ Fail(c, "network")
        /\ UNCHANGED <<index, tagsField, lastWrite>>

\* collection.upsert({ids, embeddings, metadatas, documents}) returns: the
\* backend holds, for each id of the call, the record of the call (tags as
\* JSON.stringify(article.tags)); a rejection is rethrown
UpsertDone(c) ==
  /\ pc[c] = "upsert"
  /\ UNCHANGED <<op, proc, routerVars, collection, backend, assigned, calls, local>>
  /\ \/ /\ local[c].handle = backend.uid
        /\ LET batch == local[c].articles
               ids == {a.id : a \in Range(batch)}
           IN /\ index' = [id \in RecordIds |->
                             IF id \in ids
                             THEN ArticleWithId(batch, id).credibilityScore ELSE index[id]]
              /\ tagsField' = [id \in RecordIds |->
                                 IF id \in ids
                                 THEN TagsText(JSONStringifyTags(ArticleWithId(batch, id).tags))
                                 ELSE tagsField[id]]
              /\ lastWrite' = [id \in RecordIds |->
                                 IF id \in ids
                                 THEN [kind |-> "upsert",
                                       credibilityScore |-> ArticleWithId(batch, id).credibilityScore,
                                       tags |-> ArticleWithId(batch, id).tags]
                                 ELSE lastWrite[id]]
        /\ pc' = [pc EXCEPT ![c] = "returned"]
        /\ UNCHANGED errs
     \/ /\ Fail(c, "network")
        /\ UNCHANGED <<index, tagsField, lastWrite>>

\* collection.delete({ids}) returns: the backend holds no record for the ids
DeleteDone(c) ==
  /\ pc[c] = "delete"
  /\ UNCHANGED <<op, proc, routerVars, collection, backend, assigned, calls, local>>
  /\ \/ /\ local[c].handle = backend.uid
        /\ LET ids == Range(local[c].ids)
           IN /\ index' = [id \in RecordIds |-> IF id \in ids THEN 0 ELSE index[id]]
              /\ tagsField' = [id \in RecordIds |-> IF id \in ids THEN NoTags ELSE tagsField[id]]
              /\ lastWrite' = [id \in RecordIds |->
                                 IF id \in ids THEN [NoWrite EXCEPT !.kind = "delete"]
                                 ELSE lastWrite[id]]
        /\ pc' = [pc EXCEPT ![c] = "returned"]
        /\ UNCHANGED errs
     \/ /\ Fail(c, "network")
        /\ UNCHANGED <<index, tagsField, lastWrite>>

\* collection.get({ids: [articleId], include: ['metadatas']}) returns:
\* {id, metadata} with the tags parsed when a record came back, else null
GetDone(c) ==
  /\ pc[c] = "get"
  /\ UNCHANGED <<op, proc, routerVars, storeVars, calls>>
  /\ \/ /\ local[c].handle = backend.uid
        /\ LET id == local[c].ids[1]
           IN local' = [local EXCEPT ![c].found =
                          IF index[id] # 0
                          THEN [isNull |-> FALSE, id |-> id,
                                metadata |-> Metadata(id, index[id], ReadTags(tagsField[id]))]
                          ELSE NotFound]
        /\ pc' = [pc EXCEPT ![c] = "returned"]
        /\ UNCHANGED errs
     \/ /\ Fail(c, "network")
        /\ UNCHANGED local

----------------------------------------------------------------------------
(* Specification of searchSimilar called with filter objects *)


\* searchSimilar(queryEmbedding, topK, filter): ensureCollection first
StartSearchSimilar(c, filters) ==
  /\ pc[c] = "idle"
  /\ op' = [op EXCEPT ![c] = "searchSimilar"]
  /\ proc' = [proc EXCEPT ![c] = MainProc]
  /\ \E topK \in {1, 10}, given \in BOOLEAN, f \in filters :
       /\ (~given => f = <<>>)
       /\ LET args == [NoLocal EXCEPT !.nResults = topK, !.filterGiven = given, !.filter = f]
              h == collection[MainProc]
          IN IF h # 0
             THEN /\ local' = [local EXCEPT ![c] =
                                 [args EXCEPT !.handle = h, !.where = whereClause(given, f)]]
                  /\ pc' = [pc EXCEPT ![c] = "query"]
                  /\ calls' = [calls EXCEPT ![c] = <<Call("query", 0)>>]
             ELSE /\ local' = [local EXCEPT ![c] = args]
                  /\ pc' = [pc EXCEPT ![c] = "getCollection"]
                  /\ calls' = [calls EXCEPT ![c] = <<Call("getCollection", 0)>>]
  /\ UNCHANGED <<routerVars, storeVars, errs>>

\* collection.query returns: the results are formatted and returned; a
\* rejection is not caught
SearchSimilarDone(c) ==
  /\ pc[c] = "query"
  /\ op[c] = "searchSimilar"
  /\ UNCHANGED <<op, proc, routerVars, storeVars, calls>>
  /\ \/ /\ local[c].handle = backend.uid
        /\ local' = [local EXCEPT ![c].results =
                       FormatResults(index, tagsField,
                                     BackendQuery(index, local[c].nResults, local[c].where))]
        /\ pc' = [pc EXCEPT ![c] = "returned"]
        /\ UNCHANGED errs
     \/ /\ Fail(c, "query failed")
        /\ UNCHANGED local

InitFilterSpec ==
  /\ env = [AI_PROVIDER |-> "gemini", GEMINI_API_KEY |-> TRUE, OPENAI_API_KEY |-> FALSE]
  /\ InitRouter
  /\ \E uid \in {0, 1} :
       /\ backend = [uid |-> uid, creations |-> uid]
       /\ index = [id \in RecordIds |-> IF uid = 0 THEN 0 ELSE IF id % 2 = 1 THEN 9 ELSE 5]
  /\ InitRecords
  /\ collection = [p \in Procs |-> 0]
  /\ assigned = [p \in Procs |-> 0]
  /\ InitCallers

NextFilter ==
  \/ \E c \in Requests : StartSearchSimilar(c, Filters)
  \/ \E c \in Requests : GetCollectionDone(c)
  \/ \E c \in Requests : CreateCollectionDone(c)
  \/ \E c \in Requests : RefetchDone(c)
  \/ \E c \in Requests : SearchSimilarDone(c)
  \/ \E c \in Requests : Finish(c)

SpecFilter == InitFilterSpec /\ [][NextFilter]_vars

----------------------------------------------------------------------------
(* Specification of the index under upserts, deletes and reads *)

\* the collection exists; it is empty, or it holds a record for every id with
\* the same tags value, written before this behaviour (by this program or by
\* another writer of the collection)
InitIndexSpec ==
  /\ env = [AI_PROVIDER |-> "gemini", GEMINI_API_KEY |-> TRUE, OPENAI_API_KEY |-> FALSE]
  /\ InitRouter
  /\ backend = [uid |-> 1, creations |-> 1]
  /\ \E held \in BOOLEAN,
        tags \in \* values written by other writers of the collection
                {NoTags, TagsText(<<>>), TagsText(<<"n", "u", "l", "l">>),
                 TagsText(Quoted(<<"n", "e", "w", "s">>)), TagsText(<<"n", "e", "w", "s">>),
                 TagsText(<<"[", Quote, "a">>), TagsNumber(<<"7">>)}
                \cup \* values written by upsertArticle
                {TagsText(JSONStringifyTags(t)) :
                   t \in {<<>>, <<<<"n", "e", "w", "s">>>>,
                          <<<<"n", "u", "l", "l">>, <<"r", "a", "t", "e">>>>}} :
       /\ (~held => tags = NoTags)
       /\ index = [id \in RecordIds |-> IF held THEN 9 ELSE 0]
       /\ tagsField = [id \in RecordIds |-> IF held THEN tags ELSE NoTags]
       /\ lastWrite = [id \in RecordIds |-> [NoWrite EXCEPT !.kind = IF held THEN "found" ELSE "none"]]
  /\ collection = [p \in Procs |-> 0]
  /\ assigned = [p \in Procs |-> 0]
  /\ InitCallers

NextIndex ==
  \/ \E c \in Requests : StartUpsertArticle(c)
  \/ \E c \in Requests : StartUpsertArticles(c)
  \/ \E c \in Requests : StartDeleteArticle(c)
  \/ \E c \in Requests : StartDeleteArticles(c)
  \/ \E c \in Requests : StartGetArticle(c)
  \/ \E c \in Requests : StartSearchSimilar(c, {<<>>})
  \/ \E c \in Requests : GetCollectionDone(c)
  \/ \E c \in Requests : CreateCollectionDone(c)
  \/ \E c \in Requests : RefetchDone(c)
  \/ \E c \in Requests : UpsertDone(c)
  \/ \E c \in Requests : DeleteDone(c)
  \/ \E c \in Requests : GetDone(c)
  \/ \E c \in Requests : SearchSimilarDone(c)
  \/ \E c \in Requests : Finish(c)

SpecIndex == InitIndexSpec /\ [][NextIndex]_vars

----------------------------------------------------------------------------
(* Specification of the evidence mapping of checkClaim over candidate texts *)

\* a text of n copies of one character
Repeat(ch, n) == [i \in 1..n |-> ch]

\* checkClaim for a claim, at the point where searchSimilar has returned
InitSnippetSpec ==
  /\ env = [AI_PROVIDER |-> "gemini", GEMINI_API_KEY |-> TRUE, OPENAI_API_KEY |-> FALSE]
  /\ instance = [kind |-> "gemini", id |-> 1]
  /\ providers = <<"gemini">>
  /\ warnings = {}
  /\ factChecker = [made |-> TRUE, aiService |-> instance]
  /\ embeddingsService = [made |-> TRUE, aiService |-> instance]
  /\ envChanges = 0
  /\ backend = [uid |-> 1, creations |-> 1]
  /\ index = [id \in RecordIds |-> 9]
  /\ InitRecords
  /\ collection = [p \in Procs |-> IF p = MainProc THEN 1 ELSE 0]
  /\ assigned = [p \in Procs |-> IF p = MainProc THEN 1 ELSE 0]
  /\ op = [c \in Callers |-> IF c \in Requests THEN "checkClaim" ELSE "none"]
  /\ pc = [c \in Callers |-> IF c \in Requests THEN "evidence" ELSE "idle"]
  /\ proc = [c \in Callers |-> MainProc]
  /\ calls = [c \in Callers |-> IF c \in Requests
                                THEN <<Call("embed", 1), Call("query", 0)>> ELSE <<>>]
  /\ errs = [c \in Callers |-> <<>>]
  /\ LET claims ==
           {<<"R", "a", "t", "e", " ", "u", "p">>,
            <<"b">>,
            <<"a", "r">>,
            <<"u", "p", " ", "r", "a", "t", "e">>,
            <<" ", "z", "z">>,
            <<"a", " ", "b">>}
         \* candidate texts: metadata.summary of a search result
         texts ==
           {<<>>,
            <<"R", "a", "t", "e", " ", "u", "p", ".", " ", "n", "o">>,
            <<"n", "o", ".", " ", "r", "a", "t", "e", " ", "u", "p", "!", " ", "R", "A", "T", "E", " ", "u", "p", "?">>,
            <<"b", "a", "r", " ", "a", ".", " ", "a", "r", " ", "b", ".">>,
            <<" ", "n", "o", ".", " ", "n", "o">>,
            <<"u", "p", ".", " ", "r", "a", "t", "e", " ", "u", "p">>,
            <<"a", "?", "!", " ", "B">>,
            Repeat("b", MaxLength),
            Repeat("b", MaxLength + 1),
            Repeat("n", MaxLength + 1),
            <<"a", " ", "b", "."," ">> \o Repeat("a", MaxLength) \o <<" ", "b">>}
     IN \E claim \in claims, text \in texts, articleId \in ArticleIds :
          local = [c \in Callers |->
                     IF c \in Requests
                     THEN [NoLocal EXCEPT
                             !.claim = claim, !.articleId = articleId,
                             !.handle = 1, !.nResults = TopK,
                             \* one result, whose summary is the text
                             !.results =
                               <<[id |-> 1, score |-> 9,
                                  metadata |-> [Metadata(1, 9, TagsArray(<<>>))
                                                  EXCEPT !.summary = text]]>>]
                     ELSE IdleLocal]

\* evidenceResults.map(...): the evidence items are built, the prompt is made
\* and the completion request is issued
EvidenceMapped(c) ==
  /\ pc[c] = "evidence"
  /\ LET evidence == SupportingEvidence(local[c].claim, local[c].results)
     IN local' = [local EXCEPT ![c].result.supportingEvidence = evidence,
                               ![c].prompt = EvidenceTexts(evidence)]
  /\ pc' = [pc EXCEPT ![c] = "generateText"]
  /\ calls' = [calls EXCEPT ![c] = Append(@, Call("generateText", factChecker.aiService.id))]
  /\ UNCHANGED <<op, proc, routerVars, storeVars, errs>>

NextSnippet ==
  \/ \E c \in Requests : EvidenceMapped(c)
  \/ \E c \in Requests : GenerateTextDone(c, RouterOutcomes)
  \/ \E c \in Requests : Finish(c)

SpecSnippet == InitSnippetSpec /\ [][NextSnippet]_vars

----------------------------------------------------------------------------
(* FactChecker.checkArticle and extractClaims *)

MaxClaims == 5      \* claims.slice(0, 5)
MaxExtracted == 6   \* longest array the model answers with

\* checkArticle runs in the first slot, the checkClaim of the i-th claim in
\* slot i + 1
ArticleCaller == 1
ClaimCaller(i) == i + 1
ClaimCallers == {ClaimCaller(i) : i \in 1..MaxClaims}
ArticleSlots == {ArticleCaller} \cup ClaimCallers

\* the answers of the model; the i-th string of an array is i times "b"
ExtractResponses ==
  {[kind |-> k, items |-> <<>>] : k \in {"throws", "notjson", "null", "object", "string"}}
  \cup {[kind |-> "array", items |-> [i \in 1..n |-> [j \in 1..i |-> "b"]]] : n \in 0..MaxExtracted}

\* array.slice(0, n)
Slice0(array, n) == SubSeq(array, 1, IF Len(array) < n THEN Len(array) ELSE n)

\* variant: extractClaims without its try/catch
extractClaimsNoCatch(response) ==
  IF response.kind = "throws" THEN [raised |-> TRUE, claims |-> <<>>]
  ELSE LET parsed == JSONParse(response)
       IN IF ~parsed.ok THEN [raised |-> TRUE, claims |-> <<>>]
          ELSE [raised |-> FALSE,
                claims |-> IF parsed.value.kind = "array"
                           THEN Slice0(parsed.value.items, MaxClaims) ELSE <<>>]

\* extractClaims: JSON.parse(response), Array.isArray(claims) ?
\* claims.slice(0, 5) : []; the catch returns []
extractClaims(response) ==
  IF response.kind = "throws" THEN [raised |-> FALSE, claims |-> <<>>]
  ELSE LET parsed == JSONParse(response)
       IN IF ~parsed.ok THEN [raised |-> FALSE, claims |-> <<>>]
          ELSE [raised |-> FALSE,
                claims |-> IF parsed.value.kind = "array"
                           THEN Slice0(parsed.value.items, MaxClaims) ELSE <<>>]

\* the checkClaim calls of a checkArticle, one per claim
ClaimCallersOf(c) == {ClaimCaller(i) : i \in 1..Len(local[c].claims)}

\* checkArticle(article) up to the completion request of extractClaims
StartCheckArticle(c) ==
  /\ pc[c] = "idle"
  /\ \A k \in ClaimCallers : pc[k] = "idle"
  /\ op' = [op EXCEPT ![c] = "checkArticle"]
  /\ \E articleId \in ArticleIds :
       local' = [local EXCEPT ![c] = [NoLocal EXCEPT !.articleId = articleId]]
  /\ pc' = [pc EXCEPT ![c] = "extractClaims"]
  /\ calls' = [calls EXCEPT ![c] = <<Call("generateText", factChecker.aiService.id)>>]
  /\ UNCHANGED <<proc, errs, routerVars, storeVars>>

\* the completion request of extractClaims returns or rejects; claims.map
\* starts checkClaim for every claim, each up to its embedding request, and
\* checkArticle awaits Promise.all; Promise.all of no promise resolves to []
ExtractDone(c) ==
  /\ pc[c] = "extractClaims"
  /\ \E response \in ExtractResponses :
       LET extracted == extractClaims(response)
           claims == extracted.claims
           started == {ClaimCaller(i) : i \in 1..Len(claims)}
       IN IF extracted.raised
          THEN /\ Fail(c, "Failed to check article")
               /\ local' = [local EXCEPT ![c].response = response]
               /\ UNCHANGED <<op, calls>>
          ELSE /\ pc' = [k \in DOMAIN pc |->
                           IF k = c THEN (IF claims = <<>> THEN "returned" ELSE "join")
                           ELSE IF k \in started THEN "embed" ELSE pc[k]]
               /\ op' = [k \in DOMAIN op |-> IF k \in started THEN "checkClaim" ELSE op[k]]
               /\ calls' = [k \in DOMAIN calls |->
                              IF k \in started
                              THEN <<Call("embed", embeddingsService.aiService.id)>>
                              ELSE calls[k]]
               /\ local' = [k \in DOMAIN local |->
                              IF k = c
                              THEN [local[c] EXCEPT !.response = response, !.claims = claims]
                              ELSE IF k \in started
                              THEN [NoLocal EXCEPT !.claim = claims[k - 1],
                                                   !.articleId = local[c].articleId]
                              ELSE local[k]]
               /\ UNCHANGED errs
  /\ UNCHANGED <<proc, routerVars, storeVars>>

\* the reaction of Promise.all is due: one checkClaim has rejected, or all have
\* returned; promise reactions run before the next request completes
Settled(c) ==
  /\ pc[c] = "join"
  /\ \/ \E k \in ClaimCallersOf(c) : pc[k] = "failed"
     \/ \A k \in ClaimCallersOf(c) : pc[k] = "returned"

\* variant: the results of the checkClaims that returned are returned once
\* every checkClaim is over
ArticleRejectedKeepsResults(c) ==
  /\ pc[c] = "join"
  /\ \E k \in ClaimCallersOf(c) : pc[k] = "failed"
  /\ pc' = [pc EXCEPT ![c] = "returned"]
  /\ local' = [local EXCEPT ![c].results =
                 [i \in 1..Len(local[c].claims) |-> local[ClaimCaller(i)].result]]
  /\ UNCHANGED <<op, proc, calls, errs, routerVars, storeVars>>

\* Promise.all rejects with the first rejection; the catch of checkArticle
\* rethrows
ArticleRejected(c) ==
  /\ pc[c] = "join"
  /\ \E k \in ClaimCallersOf(c) : pc[k] = "failed"
  /\ Fail(c, "Failed to check article")
  /\ UNCHANGED <<op, proc, calls, local, routerVars, storeVars>>

\* Promise.all resolves with the results in the order of the claims
ArticleResolved(c) ==
  /\ pc[c] = "join"
  /\ \A k \in ClaimCallersOf(c) : pc[k] = "returned"
  /\ pc' = [pc EXCEPT ![c] = "returned"]
  /\ local' = [local EXCEPT ![c].results =
                 [i \in 1..Len(local[c].claims) |-> local[ClaimCaller(i)].result]]
  /\ UNCHANGED <<op, proc, calls, errs, routerVars, storeVars>>

\* requests of the checkClaims complete one at a time
ClaimEmbedDone(k) == ~Settled(ArticleCaller) /\ EmbedDone(k)
ClaimQueryDone(k) == ~Settled(ArticleCaller) /\ QueryDone(k)
ClaimGenerateTextDone(k) == ~Settled(ArticleCaller) /\ GenerateTextDone(k, RouterOutcomes)

\* checkArticle and all its checkClaims are over
FinishArticle(c) ==
  /\ pc[c] \in {"returned", "failed"}
  /\ \A k \in ClaimCallersOf(c) : pc[k] \in {"returned", "failed"}
  /\ pc' = [k \in DOMAIN pc |-> "idle"]
  /\ op' = [k \in DOMAIN op |-> "none"]
  /\ calls' = [k \in DOMAIN calls |-> <<>>]
  /\ errs' = [k \in DOMAIN errs |-> <<>>]
  /\ local' = [k \in DOMAIN local |-> IdleLocal]
  /\ UNCHANGED <<proc, routerVars, storeVars>>

\* a FactChecker exists, the collection handle is cached, the index holds a
\* record for every id
InitArticleSpec ==
  /\ env = [AI_PROVIDER |-> "gemini", GEMINI_API_KEY |-> TRUE, OPENAI_API_KEY |-> FALSE]
  /\ instance = [kind |-> "gemini", id |-> 1]
  /\ providers = <<"gemini">>
  /\ warnings = {}
  /\ factChecker = [made |-> TRUE, aiService |-> instance]
  /\ embeddingsService = [made |-> TRUE, aiService |-> instance]
  /\ envChanges = 0
  /\ backend = [uid |-> 1, creations |-> 1]
  /\ index = [id \in RecordIds |-> 9]
  /\ InitRecords
  /\ collection = [p \in Procs |-> IF p = MainProc THEN 1 ELSE 0]
  /\ assigned = [p \in Procs |-> IF p = MainProc THEN 1 ELSE 0]
  /\ pc = [c \in ArticleSlots |-> "idle"]
  /\ op = [c \in ArticleSlots |-> "none"]
  /\ proc = [c \in ArticleSlots |-> MainProc]
  /\ calls = [c \in ArticleSlots |-> <<>>]
  /\ errs = [c \in ArticleSlots |-> <<>>]
  /\ local = [c \in ArticleSlots |-> IdleLocal]

NextArticle ==
  \/ StartCheckArticle(ArticleCaller)
  \/ ExtractDone(ArticleCaller)
  \/ \E k \in ClaimCallers : ClaimEmbedDone(k)
  \/ \E k \in ClaimCallers : ClaimQueryDone(k)
  \/ \E k \in ClaimCallers : ClaimGenerateTextDone(k)
  \/ ArticleRejected(ArticleCaller)
  \/ ArticleResolved(ArticleCaller)
  \/ FinishArticle(ArticleCaller)

SpecArticle == InitArticleSpec /\ [][NextArticle]_vars

----------------------------------------------------------------------------
(* Properties *)

Last(seq) == seq[Len(seq)]
HasCall(c, name) == \E i \in 1..Len(calls[c]) : calls[c][i].name = name
Checking(c) == op[c] = "checkClaim"
CheckReturned(c) == op[c] = "checkClaim" /\ pc[c] = "returned"

\* the model gave no usable verdict: it threw, its text was not JSON, the text
\* parsed to something that is not an object, or the verdict is none of the five
SynthesisFailed(o) ==
  \/ o.kind # "object"
  \/ o.verdict.t # "str"
  \/ o.verdict.s \notin {"TRUE", "FALSE", "PARTIALLY_TRUE", "MISLEADING", "UNVERIFIED"}

IsFallbackResult(r) ==
  /\ r.verdict = Str("UNVERIFIED")
  /\ r.confidence = Num(1)
  /\ r.explanation = Str("Unable to verify claim due to analysis error. Please review manually.")

\* C1: verdict synthesis never raises: whenever the model call throws, the
\* text is not JSON, it parses to a non-object, or the verdict is not one of
\* the five values, the analysis is exactly the fixed fallback; and a
\* checkClaim that has issued the completion request (embedding and retrieval
\* succeeded) never fails but returns a result for its claim.
C1_SynthesisNeverRaises ==
  \A c \in Requests : Checking(c) =>
    /\ (pc[c] = "returned" /\ SynthesisFailed(local[c].outcome))
          => IsFallbackResult(local[c].result)
    /\ pc[c] = "failed" => ~HasCall(c, "generateText")
    /\ pc[c] = "returned" =>
          /\ local[c].result.claim = local[c].claim
          /\ local[c].result.verdict.t = "str"

C1_Witness ==
  \E c \in Requests :
    /\ CheckReturned(c)
    /\ local[c].outcome.kind = "null"
    /\ IsFallbackResult(local[c].result)

\* C2: in every result returned by checkClaim the confidence is a number in
\* [0,1]: above 1 becomes 1, below 0 becomes 0, inside the range it is kept,
\* and a missing or non-numeric confidence never yields a value outside [0,1].
C2_ConfidenceInUnitInterval ==
  \A c \in Requests : CheckReturned(c) =>
    LET conf == local[c].result.confidence
        given == local[c].outcome.confidence
    IN /\ conf.t = "num"
       /\ 0 <= conf.n /\ conf.n <= 10
       /\ (~SynthesisFailed(local[c].outcome) /\ given.t = "num") =>
            conf.n = (IF given.n > 10 THEN 10 ELSE IF given.n < 0 THEN 0 ELSE given.n)

\* C3: the verdict of every result returned by checkClaim is one of the five
\* values; a response with any other verdict (missing, differently cased, not
\* a string) is not passed through or coerced but yields the fixed fallback.
C3_VerdictClosed ==
  \A c \in Requests : CheckReturned(c) =>
    LET given == local[c].outcome.verdict
        r == local[c].result
    IN /\ r.verdict.t = "str"
       /\ r.verdict.s \in {"TRUE", "FALSE", "PARTIALLY_TRUE", "MISLEADING", "UNVERIFIED"}
       /\ (local[c].outcome.kind = "object" /\ given # r.verdict) => IsFallbackResult(r)

C3_Witness ==
  \E c \in Requests :
    /\ CheckReturned(c)
    /\ local[c].outcome.kind = "object"
    /\ local[c].outcome.verdict = Str("true")
    /\ IsFallbackResult(local[c].result)

\* C4: every vector query issued by checkClaim asks for 10 results under the
\* filter credibilityScore >= 0.6, compiled to a non-empty where clause; no
\* evidence item of the prompt or of supportingEvidence has a credibilityScore
\* below 0.6.
C4_CredibilityFloor ==
  \A c \in Requests : (Checking(c) /\ HasCall(c, "query")) =>
    /\ local[c].nResults = 10
    /\ local[c].where.kind # "undefined"
    /\ local[c].where =
         [kind |-> "condition",
          conds |-> <<[field |-> "credibilityScore", value |-> Gte(Num(6))]>>]
    /\ \A i \in 1..Len(local[c].result.supportingEvidence) :
         local[c].result.supportingEvidence[i].credibilityScore >= 6
    /\ \A i \in 1..Len(local[c].prompt) : local[c].prompt[i].credibility >= 6

C4_Witness ==
  \E c \in Requests :
    /\ CheckReturned(c)
    /\ \E hi, lo \in RecordIds : index[hi] = 9 /\ index[lo] = 5
         /\ Len(local[c].result.supportingEvidence) = 1
         /\ local[c].result.supportingEvidence[1].articleId = hi
         /\ Len(local[c].prompt) = 1

IsPipelineCall(call) == call.name \in {"embed", "query", "generateText"}
PipelineCalls(c) ==
  LET ext == SelectSeq(calls[c], IsPipelineCall)
  IN [i \in 1..Len(ext) |-> ext[i].name]

\* C5: within one checkClaim the external calls are embed, vector query,
\* completion, in this order and each at most once; a failed embedding fails
\* checkClaim with no query and no completion issued, a failed query fails it
\* with no completion issued, and neither failure produces a result.
C5_CallOrder ==
  \A c \in Requests : Checking(c) =>
    LET names == PipelineCalls(c)
        order == <<"embed", "query", "generateText">>
    IN /\ Len(names) <= 3
       /\ names = SubSeq(order, 1, Len(names))
       /\ "Failed to create embedding" \in Range(errs[c]) =>
            (pc[c] = "failed" /\ names = <<"embed">> /\ local[c].result = NoResult)
       /\ "query failed" \in Range(errs[c]) =>
            (pc[c] = "failed" /\ names = <<"embed", "query">>
             /\ local[c].result.verdict = Undef)

C5_Witness ==
  \E c \in Requests :
    /\ Checking(c) /\ pc[c] = "failed"
    /\ "query failed" \in Range(errs[c])
    /\ PipelineCalls(c) = <<"embed", "query">>

HasKey(e, k) == IF k = "gemini" THEN e.GEMINI_API_KEY ELSE e.OPENAI_API_KEY
OtherProvider(k) == IF k = "gemini" THEN "openai" ELSE "gemini"
\* the preferred provider; gemini when AI_PROVIDER names none
Preferred(e) == IF e.AI_PROVIDER = "openai" THEN "openai" ELSE "gemini"
Expected(e) ==
  IF HasKey(e, Preferred(e)) THEN Preferred(e)
  ELSE IF HasKey(e, OtherProvider(Preferred(e))) THEN OtherProvider(Preferred(e))
  ELSE "none"

\* C6: the selected provider is a function of (preferred name, gemini key
\* present, openai key present): the preferred one whenever its key is
\* present, else the other one if its key is present, with the fallback
\* warning and without an error; the other provider is never selected while
\* the preferred one is configured.
C6_SelectionFunction ==
  /\ instance # NoInstance => instance.kind = Expected(env)
  /\ (instance # NoInstance /\ HasKey(env, Preferred(env))) => instance.kind = Preferred(env)
  /\ \A c \in Requests :
       (pc[c] = "failed" /\ NoProviderError \in Range(errs[c])) => Expected(env) = "none"
  /\ (instance # NoInstance /\ env.AI_PROVIDER \in {"gemini", "openai"}) =>
       (instance.id \in warnings <=> instance.kind # env.AI_PROVIDER)

C6_Witness ==
  /\ env.AI_PROVIDER = "openai" /\ env.GEMINI_API_KEY /\ env.OPENAI_API_KEY
  /\ instance.kind = "openai"

C8_SelectionCached ==
  [][ /\ instance # NoInstance =>
           /\ providers' = providers
           /\ instance' \in {instance, NoInstance}
           /\ \A c \in Requests :
                (pc[c] = "idle" /\ op'[c] = "getAIService") =>
                   (pc'[c] = "returned" /\ local'[c].provider = instance)
      /\ (instance = NoInstance /\ instance' # NoInstance) =>
           /\ instance'.kind = Expected(env)
           /\ instance'.id = Len(providers) + 1
           /\ providers' = Append(providers, instance'.kind)
    ]_vars

C8_Witness ==
  \E c \in Requests :
    /\ op[c] = "getAIService" /\ pc[c] = "returned"
    /\ local[c].provider = instance
    /\ envChanges > 0
    /\ instance.kind # Expected(env)

\* C9: when callers, in one process or in several, run ensureCollection
\* concurrently while the collection does not exist, one collection is created
\* on the backend, every caller that gets past ensureCollection holds a handle
\* to that collection, and the 'already exists' rejection of createCollection
\* never surfaces: a caller fails only by a backend fault.
C9_EnsureConverges ==
  /\ backend.creations <= 1
  /\ \A p \in Procs : collection[p] # 0 => collection[p] = backend.uid
  /\ \A c \in Callers :
       /\ pc[c] \in {"count", "returned"} =>
            (backend.uid # 0 /\ local[c].handle = backend.uid)
       /\ pc[c] = "failed" => Last(errs[c]) = "network"

C9_Witness ==
  \E c, d \in Callers :
    /\ c # d
    /\ "not found" \in Range(errs[c]) /\ "not found" \in Range(errs[d])
    /\ "already exists" \in Range(errs[d])
    /\ pc[c] \in {"count", "returned"} /\ pc[d] \in {"count", "returned"}
    /\ local[c].handle = local[d].handle /\ local[c].handle # 0

\* C10: the collection handle of a store is initialized at most once per
\* process: the fetch/create sequence runs once and the cached handle is
\* assigned once, under any interleaving of concurrent first-time operations.
C10_HandleInitializedOnce ==
  \A p \in Procs :
    /\ assigned[p] <= 1
    /\ Cardinality({c \in Callers : proc[c] = p /\ HasCall(c, "getCollection")}) <= 1


----------------------------------------------------------------------------
(* Properties of the filter compiler *)

Searching(c) == op[c] = "searchSimilar" /\ local[c].filterGiven
Compiled(c) == Searching(c) /\ pc[c] \in {"query", "returned"}

\* the field/operator pairs a filter value or a compiled condition carries
PairsOf(field, value) ==
  IF ~value.isObject THEN <<[field |-> field, operator |-> "equals", operand |-> value.eq]>>
  ELSE (IF value.gte # Undef
        THEN <<[field |-> field, operator |-> "$gte", operand |-> value.gte]>> ELSE <<>>)
       \o (IF value.lte # Undef
           THEN <<[field |-> field, operator |-> "$lte", operand |-> value.lte]>> ELSE <<>>)
       \o (IF value.hasIn
           THEN <<[field |-> field, operator |-> "$in", operand |-> value.items]>> ELSE <<>>)

\* the pairs the filter language supports: a range on publishedAt, set
\* membership on source and category, a lower bound on credibilityScore, and
\* equality on these four fields
SupportedPair(pair) ==
  \/ pair.field = "publishedAt" /\ pair.operator \in {"$gte", "$lte", "equals"}
  \/ pair.field \in {"source", "category"} /\ pair.operator \in {"$in", "equals"}
  \/ pair.field = "credibilityScore" /\ pair.operator \in {"$gte", "equals"}

RECURSIVE SuppliedPairs(_)
SuppliedPairs(filter) ==
  IF filter = <<>> THEN <<>>
  ELSE PairsOf(filter[1].key, filter[1].value) \o SuppliedPairs(Tail(filter))

AllSupported(filter) ==
  \A i \in 1..Len(SuppliedPairs(filter)) : SupportedPair(SuppliedPairs(filter)[i])

ClausesOn(where, field) == SelectSeq(where.conds, LAMBDA cond : cond.field = field)

\* C11: for a filter made of supported conditions the compiled predicate is
\* determined by their number: none gives no filter (undefined), one gives
\* that condition alone with no $and wrapper, two or more give one $and
\* wrapper holding exactly the supplied conditions.
C11_ShapeByConditionCount ==
  \A c \in Requests : (Compiled(c) /\ AllSupported(local[c].filter)) =>
    LET supplied == SuppliedPairs(local[c].filter)
        where == local[c].where
    IN /\ (Len(supplied) = 0 => where = [kind |-> "undefined", conds |-> <<>>])
       /\ (Len(supplied) = 1 => where.kind = "condition")
       /\ (Len(supplied) >= 2 => where.kind = "$and")
       /\ Len(where.conds) = Len(supplied)
       /\ \A i \in 1..Len(supplied) :
            PairsOf(where.conds[i].field, where.conds[i].value) = <<supplied[i]>>

C11_Witness ==
  \E c \in Requests :
    /\ Compiled(c) /\ pc[c] = "returned" /\ AllSupported(local[c].filter)
    /\ Len(SuppliedPairs(local[c].filter)) >= 2
    /\ local[c].where.kind = "$and"

\* C12: a searchSimilar whose filter holds a field/operator pair outside the
\* supported set fails at compile time: it never issues the backend query and
\* never returns results.
C12_UnsupportedFilterFails ==
  \A c \in Requests : (Searching(c) /\ ~AllSupported(local[c].filter)) =>
    /\ ~HasCall(c, "query")
    /\ pc[c] # "returned"

\* C13: a publishedAt range compiles to one clause per bound that is present
\* (gte alone, lte alone, or the two as separate clauses), and no compiled
\* predicate holds more than two publishedAt clauses.
C13_PublishedAtClauses ==
  \A c \in Requests : Compiled(c) =>
    LET clauses == ClausesOn(local[c].where, "publishedAt")
        filter == local[c].filter
    IN /\ Len(clauses) <= 2
       /\ \A i \in 1..Len(filter) :
            (filter[i].key = "publishedAt" /\ filter[i].value.isObject /\ ~filter[i].value.hasIn) =>
              clauses =
                (IF filter[i].value.gte # Undef
                 THEN <<[field |-> "publishedAt", value |-> Gte(filter[i].value.gte)]>> ELSE <<>>)
                \o (IF filter[i].value.lte # Undef
                    THEN <<[field |-> "publishedAt", value |-> Lte(filter[i].value.lte)]>> ELSE <<>>)

C13_Witness ==
  \E c \in Requests :
    /\ Compiled(c) /\ pc[c] = "returned"
    /\ \E i \in 1..Len(local[c].filter) :
         /\ local[c].filter[i].key = "publishedAt"
         /\ local[c].filter[i].value.gte # Undef /\ local[c].filter[i].value.lte # Undef
    /\ Len(ClausesOn(local[c].where, "publishedAt")) = 2

\* C14: a credibilityScore range with a gte bound, the bound 0 included,
\* compiles to exactly the one clause credibilityScore >= bound; an lte bound
\* given with it adds nothing.
C14_CredibilityLowerBoundOnly ==
  \A c \in Requests : Compiled(c) =>
    \A i \in 1..Len(local[c].filter) :
      (/\ local[c].filter[i].key = "credibilityScore"
       /\ local[c].filter[i].value.isObject
       /\ local[c].filter[i].value.gte # Undef) =>
        ClausesOn(local[c].where, "credibilityScore") =
          <<[field |-> "credibilityScore", value |-> Gte(local[c].filter[i].value.gte)]>>

C14_Witness ==
  \E c \in Requests :
    /\ Compiled(c) /\ pc[c] = "returned"
    /\ \E i \in 1..Len(local[c].filter) :
         /\ local[c].filter[i].key = "credibilityScore"
         /\ local[c].filter[i].value.gte = Num(0)
    /\ Len(ClausesOn(local[c].where, "credibilityScore")) = 1


----------------------------------------------------------------------------
(* Properties of the index *)

GetReturned(c) == op[c] = "getArticle" /\ pc[c] = "returned"
SearchReturned(c) == op[c] = "searchSimilar" /\ pc[c] = "returned"

\* a tag list as a value read back: an array of strings
AsRead(tags) == TagsArray([i \in 1..Len(tags) |-> TagsText(tags[i])])

IsStringList(value) ==
  value.t = "array" /\ \A i \in 1..Len(value.items) : value.items[i].t = "string"

\* the index agrees with the last write applied to each id
IndexFollowsWrites ==
  /\ \A id \in RecordIds :
       /\ lastWrite[id].kind \in {"none", "delete"} => index[id] = 0
       /\ lastWrite[id].kind = "found" => index[id] # 0
       /\ lastWrite[id].kind = "upsert" => index[id] = lastWrite[id].credibilityScore
  /\ \A c \in Requests : GetReturned(c) =>
       LET id == local[c].ids[1]
           found == local[c].found
       IN /\ found.isNull <=> lastWrite[id].kind \in {"none", "delete"}
          /\ lastWrite[id].kind = "upsert" =>
               /\ found.id = id
               /\ found.metadata.credibilityScore = lastWrite[id].credibilityScore
               /\ found.metadata.tags = AsRead(lastWrite[id].tags)

\* an upsert of records that are the last write of their ids changes nothing
RepeatedUpsertChangesNothing ==
  \A c \in Requests :
    (/\ pc[c] = "upsert" /\ pc'[c] = "returned"
     /\ \A i \in 1..Len(local[c].articles) :
          lastWrite[local[c].articles[i].id] =
            [kind |-> "upsert",
             credibilityScore |-> local[c].articles[i].credibilityScore,
             tags |-> local[c].articles[i].tags])
    => (index' = index /\ tagsField' = tagsField)

\* C15: after any sequence of upserts and deletes a record exists for an id
\* exactly when the last write applied to the id was an upsert, it carries
\* the metadata of that upsert, an upsert repeated with the same record
\* leaves the index as it was, and getArticle returns null exactly for ids
\* deleted or never upserted.
C15_LastWriteWins == []IndexFollowsWrites /\ [][RepeatedUpsertChangesNothing]_vars

C15_Witness ==
  \E c \in Requests : \E other \in RecordIds :
    /\ GetReturned(c) /\ ~local[c].found.isNull
    /\ lastWrite[local[c].ids[1]].kind = "upsert"
    /\ local[c].found.metadata.credibilityScore = 6
    /\ lastWrite[other].kind = "delete"

\* C16: metadata.tags read by getArticle and searchSimilar is a list of
\* strings whatever the tags field holds: the tags of the last upsert when
\* upsert wrote the field, and the empty list when the field cannot be
\* deserialized.
C16_TagsReadAsList ==
  /\ \A c \in Requests : (GetReturned(c) /\ ~local[c].found.isNull) =>
       LET id == local[c].ids[1]
           tags == local[c].found.metadata.tags
       IN /\ IsStringList(tags)
          /\ lastWrite[id].kind = "upsert" => tags = AsRead(lastWrite[id].tags)
          /\ (tagsField[id].t = "string" /\ ~JSONParseTags(tagsField[id].text).ok) =>
               tags = TagsArray(<<>>)
  /\ \A c \in Requests : SearchReturned(c) =>
       \A i \in 1..Len(local[c].results) :
         LET id == local[c].results[i].id
             tags == local[c].results[i].metadata.tags
         IN /\ IsStringList(tags)
            /\ lastWrite[id].kind = "upsert" => tags = AsRead(lastWrite[id].tags)
            /\ (tagsField[id].t = "string" /\ ~JSONParseTags(tagsField[id].text).ok) =>
                 tags = TagsArray(<<>>)


----------------------------------------------------------------------------
(* Properties of snippet extraction *)

\* the candidate text of a search result: metadata.summary || metadata.title
CandidateText(result) ==
  IF result.metadata.summary # <<>> THEN result.metadata.summary ELSE result.metadata.title

EvidenceBuilt(c) ==
  op[c] = "checkClaim" /\ pc[c] \in {"generateText", "returned"} /\ local[c].results # <<>>

\* C17: the relevantText of every evidence item of checkClaim has at most 200
\* characters, also when the best sentence is longer and is truncated with an
\* ellipsis.
C17_RelevantTextAtMost200 ==
  \A c \in Requests : EvidenceBuilt(c) =>
    \A i \in 1..Len(local[c].result.supportingEvidence) :
      Len(local[c].result.supportingEvidence[i].relevantText) <= 200

\* the words of a text: its pieces between white space, lower-cased
WordsOf(text) == {w \in Range(SplitWhitespace(ToLowerCase(text))) : w # <<>>}

\* number of claim words that are words of the sentence
WordScore(claim, sentence) ==
  LET claimWords == SplitWhitespace(ToLowerCase(claim))
  IN Cardinality({i \in 1..Len(claimWords) : claimWords[i] \in WordsOf(sentence)})

\* the earliest sentence with the highest word score, or 0 when every score is 0
BestByWords(claim, sentences) ==
  LET best == {k \in 1..Len(sentences) :
                 /\ WordScore(claim, sentences[k]) > 0
                 /\ \A j \in 1..Len(sentences) :
                      /\ WordScore(claim, sentences[j]) <= WordScore(claim, sentences[k])
                      /\ (j < k => WordScore(claim, sentences[j]) < WordScore(claim, sentences[k]))}
  IN IF best = {} THEN 0 ELSE CHOOSE k \in best : TRUE

\* C18: the snippet is the sentence of the candidate text that holds the most
\* claim words as words (case-insensitive, claim split on white space), the
\* earliest one on a tie, cut to 200 characters with an ellipsis when longer;
\* when no sentence holds a claim word it is the first 200 characters of
\* the text.
C18_SnippetIsBestSentence ==
  \A c \in Requests : EvidenceBuilt(c) =>
    \A i \in 1..Len(local[c].results) :
      LET text == CandidateText(local[c].results[i])
          sentences == SplitSentences(text)
          k == BestByWords(local[c].claim, sentences)
          snippet == local[c].result.supportingEvidence[i].relevantText
      IN IF k = 0 THEN snippet = Substring0(text, 200)
         ELSE IF Len(Trim(sentences[k])) > 200
              THEN snippet = Substring0(Trim(sentences[k]), 200) \o <<".", ".", ".">>
              ELSE snippet = Trim(sentences[k])

----------------------------------------------------------------------------
(* checkArticle *)

ArticleRunning == op[ArticleCaller] = "checkArticle"
Fanned == ArticleRunning /\ pc[ArticleCaller] \in {"join", "returned", "failed"}
ArticleOver == ArticleRunning /\ pc[ArticleCaller] \in {"returned", "failed"}
ClaimsOfArticle == local[ArticleCaller].claims
ClaimOver(k) == pc[k] \in {"returned", "failed"}

\* one checkClaim per extracted claim, with the claim's text and the
\* article's id, and no other
OneCheckPerClaim ==
  Fanned =>
    /\ \A i \in 1..Len(ClaimsOfArticle) :
         /\ op[ClaimCaller(i)] = "checkClaim"
         /\ local[ClaimCaller(i)].claim = ClaimsOfArticle[i]
         /\ local[ClaimCaller(i)].articleId = local[ArticleCaller].articleId
         /\ Len(SelectSeq(calls[ClaimCaller(i)], LAMBDA call : call.name = "embed")) = 1
    /\ \A k \in ClaimCallers \ ClaimCallersOf(ArticleCaller) : op[k] = "none" /\ calls[k] = <<>>

\* a returned list has one entry per claim, in claim order, each the result of
\* that claim's checkClaim
ResultsInClaimOrder ==
  (ArticleRunning /\ pc[ArticleCaller] = "returned") =>
    /\ \A k \in ClaimCallersOf(ArticleCaller) : pc[k] = "returned"
    /\ Len(local[ArticleCaller].results) = Len(ClaimsOfArticle)
    /\ \A i \in 1..Len(ClaimsOfArticle) :
         /\ local[ArticleCaller].results[i] = local[ClaimCaller(i)].result
         /\ local[ArticleCaller].results[i].claim = ClaimsOfArticle[i]
         /\ local[ArticleCaller].results[i].articleId = local[ArticleCaller].articleId

\* a failed checkClaim fails checkArticle, which returns nothing
AllOrNothing ==
  (ArticleRunning /\ \E k \in ClaimCallersOf(ArticleCaller) : pc[k] = "failed") =>
    /\ pc[ArticleCaller] \in {"join", "failed"}
    /\ local[ArticleCaller].results = <<>>
    /\ (pc[ArticleCaller] = "join" => ENABLED ArticleRejected(ArticleCaller))

\* C19: checkArticle issues exactly one checkClaim per extracted claim and
\* is over only when all of them are over; a returned list has one entry per
\* claim, in claim order, each with its own claim text and the article's id;
\* if one checkClaim fails, checkArticle fails and returns no partial result.
C19_CompletesAfterAllClaims ==
  /\ OneCheckPerClaim
  /\ ResultsInClaimOrder
  /\ AllOrNothing
  /\ (ArticleOver => \A k \in ClaimCallersOf(ArticleCaller) : ClaimOver(k))

\* C19 as amended: checkArticle returns only when all its checkClaims have
\* returned, with one entry per claim in claim order, each with its own claim
\* text and the article's id; it fails, with no partial result, as soon as
\* one checkClaim has failed, whether or not the others are over.
C19_ReturnsAfterAllFailsAtFirst ==
  /\ OneCheckPerClaim
  /\ ResultsInClaimOrder
  /\ AllOrNothing
  /\ (ArticleRunning /\ pc[ArticleCaller] = "failed" =>
        \E k \in ClaimCallersOf(ArticleCaller) : pc[k] = "failed")

\* checkArticle has failed on one checkClaim while another has returned and a
\* third is still waiting for a request
C19_Witness ==
  /\ ArticleRunning /\ pc[ArticleCaller] = "failed"
  /\ Last(errs[ArticleCaller]) = "Failed to check article"
  /\ \E k \in ClaimCallersOf(ArticleCaller) : pc[k] = "failed"
  /\ \E k \in ClaimCallersOf(ArticleCaller) : pc[k] = "returned"
  /\ \E k \in ClaimCallersOf(ArticleCaller) : pc[k] \in {"embed", "query", "generateText"}

\* C20: extractClaims never raises: when the model call fails, the response
\* is not JSON or it is JSON other than an array, the claims are the empty
\* list, otherwise the first 5 elements at most; with no claim checkArticle
\* returns an empty list without error and without any embedding, query or
\* verdict-completion call.
C20_ExtractionNeverRaises ==
  (ArticleRunning /\ pc[ArticleCaller] # "extractClaims") =>
    LET response == local[ArticleCaller].response
        n == IF Len(response.items) < MaxClaims THEN Len(response.items) ELSE MaxClaims
    IN /\ response.kind # "array" => ClaimsOfArticle = <<>>
       /\ response.kind = "array" =>
            /\ Len(ClaimsOfArticle) = n
            /\ \A i \in 1..n : ClaimsOfArticle[i] = response.items[i]
       /\ Len(ClaimsOfArticle) <= 5
       /\ ClaimsOfArticle = <<>> =>
            /\ pc[ArticleCaller] = "returned"
            /\ local[ArticleCaller].results = <<>>
            /\ errs[ArticleCaller] = <<>>
            /\ Len(calls[ArticleCaller]) = 1
            /\ \A k \in ClaimCallers : calls[k] = <<>> /\ op[k] = "none"

\* the model call of extractClaims has failed and checkArticle has returned
\* the empty list
C20_Witness ==
  /\ ArticleRunning /\ pc[ArticleCaller] = "returned"
  /\ local[ArticleCaller].response.kind = "throws"
  /\ local[ArticleCaller].results = <<>>
  /\ \A k \in ClaimCallers : calls[k] = <<>>

(* AIProvider.createEmbeddings of the two providers *)

MaxTexts == 201     \* longest list of texts embedded in one call
batchSize == 100    \* texts per request of OpenAIProvider.createEmbeddings

\* the embeddings endpoint of a provider answers a request with one embedding
\* per input, in the order of the inputs, or rejects the request; the
\* embedding of text t is written <<t, t + 1>>
EmbedBatchDoneSkipsFailed(c) ==
  /\ pc[c] = "embedBatch"
  /\ LET l == local[c]
         batch == SubSeq(l.texts, l.i + 1, IF l.i + batchSize < Len(l.texts)
                                           THEN l.i + batchSize ELSE Len(l.texts))
         data == [j \in 1..Len(batch) |-> [embedding |-> <<batch[j], batch[j] + 1>>]]
     IN \E ok \in BOOLEAN :
          LET results == IF ok THEN l.results \o data ELSE l.results
          IN /\ local' = [local EXCEPT ![c] =
                   [l EXCEPT !.results = results, !.i = l.i + batchSize,
                             !.returned = IF l.i + batchSize < Len(l.texts) THEN @
                                          ELSE [kind |-> "list", items |-> results]]]
             /\ pc' = [pc EXCEPT ![c] = IF l.i + batchSize < Len(l.texts)
                                        THEN "embedBatch" ELSE "returned"]
             /\ calls' = [calls EXCEPT ![c] =
                            IF l.i + batchSize < Len(l.texts)
                            THEN <<Call("embeddings.create", l.provider.id)>> ELSE @]
  /\ UNCHANGED <<op, proc, routerVars, storeVars, errs>>

\* OpenAIProvider.createEmbeddings: one request per slice of batchSize texts
EmbedBatchDone(c) ==
  /\ pc[c] = "embedBatch"
  /\ UNCHANGED <<op, proc, routerVars, storeVars>>
  /\ LET l == local[c]
         batch == SubSeq(l.texts, l.i + 1, IF l.i + batchSize < Len(l.texts)
                                           THEN l.i + batchSize ELSE Len(l.texts))
         data == [j \in 1..Len(batch) |-> [embedding |-> <<batch[j], batch[j] + 1>>]]
         results == l.results \o data
     IN \/ /\ l.i + batchSize < Len(l.texts)
           /\ local' = [local EXCEPT ![c] = [l EXCEPT !.results = results, !.i = l.i + batchSize]]
           /\ calls' = [calls EXCEPT ![c] = <<Call("embeddings.create", l.provider.id)>>]
           /\ UNCHANGED <<pc, errs>>
        \/ /\ l.i + batchSize >= Len(l.texts)
           /\ local' = [local EXCEPT ![c] =
                          [l EXCEPT !.results = results, !.i = l.i + batchSize,
                                    !.returned = [kind |-> "list", items |-> results]]]
           /\ pc' = [pc EXCEPT ![c] = "returned"]
           /\ UNCHANGED <<calls, errs>>
        \/ /\ Fail(c, "Failed to create embeddings")
           /\ UNCHANGED <<local, calls>>

\* GeminiProvider.createEmbeddings: createEmbedding of one text after the
\* other; a rejected request and an answer without values both throw
EmbedItemDone(c) ==
  /\ pc[c] = "embedItem"
  /\ UNCHANGED <<op, proc, routerVars, storeVars>>
  /\ LET l == local[c]
         text == l.texts[Len(l.results) + 1]
         results == Append(l.results, [embedding |-> <<text, text + 1>>])
     IN \/ /\ Len(results) < Len(l.texts)
           /\ local' = [local EXCEPT ![c] = [l EXCEPT !.results = results]]
           /\ calls' = [calls EXCEPT ![c] = <<Call("embedContent", l.provider.id)>>]
           /\ UNCHANGED <<pc, errs>>
        \/ /\ Len(results) = Len(l.texts)
           /\ local' = [local EXCEPT ![c] =
                          [l EXCEPT !.results = results,
                                    !.returned = [kind |-> "list", items |-> results]]]
           /\ pc' = [pc EXCEPT ![c] = "returned"]
           /\ UNCHANGED <<calls, errs>>
        \/ /\ Fail(c, "Failed to create embeddings")
           /\ UNCHANGED <<local, calls>>

\* EmbeddingsService.createEmbeddings(texts): the provider of the service
\* embeds the list; an empty list sends no request
StartCreateEmbeddings(c) ==
  /\ pc[c] = "idle"
  /\ op' = [op EXCEPT ![c] = "createEmbeddings"]
  /\ proc' = [proc EXCEPT ![c] = MainProc]
  /\ \E n \in {k \in 0..MaxTexts : k <= 2 \/ k = MaxTexts
                                   \/ k % batchSize \in {0, 1, batchSize - 1}} :
       LET g == getEmbeddingsService(embeddingsService, instance, env, providers, warnings)
           ai == g.embeddingsService.aiService
           texts == [j \in 1..n |-> j % 5]
       IN /\ embeddingsService' = g.embeddingsService
          /\ instance' = g.instance
          /\ providers' = g.providers
          /\ warnings' = g.warnings
          /\ IF ~g.ok
             THEN /\ Fail(c, NoProviderError)
                  /\ local' = [local EXCEPT ![c] = [NoLocal EXCEPT !.texts = texts]]
                  /\ UNCHANGED calls
             ELSE /\ local' = [local EXCEPT ![c] =
                                 [NoLocal EXCEPT !.provider = ai, !.texts = texts,
                                    !.returned = IF n = 0 THEN [kind |-> "list", items |-> <<>>]
                                                 ELSE @]]
                  /\ pc' = [pc EXCEPT ![c] = IF n = 0 THEN "returned"
                                             ELSE IF ai.kind = "openai" THEN "embedBatch"
                                             ELSE "embedItem"]
                  /\ calls' = [calls EXCEPT ![c] =
                                 IF n = 0 THEN @
                                 ELSE <<Call(IF ai.kind = "openai" THEN "embeddings.create"
                                             ELSE "embedContent", ai.id)>>]
                  /\ UNCHANGED errs
  /\ UNCHANGED <<env, envChanges, factChecker, storeVars>>

\* one caller embeds lists of texts: a call of createEmbeddings shares nothing
\* with another call but the provider
NextEmbed ==
  \/ StartCreateEmbeddings(1)
  \/ EmbedBatchDone(1)
  \/ EmbedItemDone(1)
  \/ Finish(1)

SpecEmbed == InitRouterSpec /\ [][NextEmbed]_vars

\* C21: createEmbeddings of either provider returns one embedding per input
\* text, the embedding at position j being that of the j-th text, and when a
\* request of the call fails the call fails and returns no list, whatever the
\* earlier requests of the call returned
C21_BatchInOrderAllOrNothing ==
  \A c \in Callers :
    op[c] = "createEmbeddings" =>
      LET l == local[c]
      IN /\ pc[c] = "returned" =>
              /\ l.returned.kind = "list"
              /\ Len(l.returned.items) = Len(l.texts)
              /\ \A j \in 1..Len(l.texts) :
                   l.returned.items[j].embedding = <<l.texts[j], l.texts[j] + 1>>
         /\ pc[c] # "returned" => l.returned.kind = "none"

\* a list that needs three requests of the OpenAI provider has been returned
C21_Witness ==
  \E c \in Callers :
    /\ op[c] = "createEmbeddings" /\ pc[c] = "returned"
    /\ local[c].provider.kind = "openai"
    /\ Len(local[c].texts) > 2 * batchSize
    /\ Len(local[c].returned.items) = Len(local[c].texts)

\* a call of the Gemini provider has failed after its first text was embedded
C21_WitnessGeminiFails ==
  \E c \in Callers :
    /\ op[c] = "createEmbeddings" /\ pc[c] = "failed"
    /\ local[c].provider.kind = "gemini"
    /\ Len(local[c].results) > 0

----------------------------------------------------------------------------
(* EmbeddingsService.preprocessText and isTextSuitableForEmbedding *)

Letters ==
  {"a", "b", "c", "d", "e", "f", "g", "h", "i", "j", "k", "l", "m",
   "n", "o", "p", "q", "r", "s", "t", "u", "v", "w", "x", "y", "z"}

preprocessText(text) ==
  LET \* replace(/\s+/g, ' '): only the first character of a run of white space stays
      first == {i \in 1..Len(text) : ~(IsSpace(text[i]) /\ i > 1 /\ IsSpace(text[i - 1]))}
      Nth(k) == CHOOSE x \in first : Cardinality({y \in first : y < x}) = k - 1
      collapsed == [k \in 1..Cardinality(first) |-> text[Nth(k)]]
      \* the characters /[^\w\s.,!?-]/g leaves in place: \w is letters (the
      \* capitals are those ToLowerChar knows), digits and _
      IsKept(ch) ==
        \/ ch \in Letters \cup {"A", "B", "R"}
        \/ ch \in {"0", "1", "2", "3", "4", "5", "6", "7", "8", "9", "_"}
        \/ ch \in Whitespace \cup {".", ",", "!", "?", "-"}
  IN ToLowerCase(Trim(SelectSeq(collapsed, IsKept)))

isTextSuitableForEmbedding(text) ==
  LET cleaned == preprocessText(text)
      wordCount == Len(SplitWhitespace(cleaned))
      alphaCount == Cardinality({i \in 1..Len(cleaned) : cleaned[i] \in Letters})
  IN /\ ~(Len(cleaned) < 10 \/ Len(cleaned) > 8000)
     /\ ~(wordCount < 3)
     \* alphaCount / cleaned.length < 0.5
     /\ ~(2 * alphaCount < Len(cleaned))

\* C22: no embedding request is sent to the provider for a text that
\* isTextSuitableForEmbedding rejects: the claim of checkClaim, and the text
\* 'test' of the embeddings health check
C22_NoRequestForUnsuitableText ==
  \A c \in DOMAIN calls :
    \A k \in 1..Len(calls[c]) :
      calls[c][k].name = "embed" =>
        isTextSuitableForEmbedding(IF op[c] = "checkClaim" THEN local[c].claim
                                   ELSE <<"t", "e", "s", "t">>)

----------------------------------------------------------------------------
(* EmbeddingsService.calculateSimilarity *)

MaxDim == 2         \* longest vector compared

\* the loop of calculateSimilarity after its first k iterations
RECURSIVE SimilarityLoop(_, _, _)
SimilarityLoop(embedding1, embedding2, k) ==
  IF k = 0 THEN [dotProduct |-> 0, norm1 |-> 0, norm2 |-> 0]
  ELSE LET prev == SimilarityLoop(embedding1, embedding2, k - 1)
       IN [dotProduct |-> prev.dotProduct + embedding1[k] * embedding2[k],
           norm1 |-> prev.norm1 + embedding1[k] * embedding1[k],
           norm2 |-> prev.norm2 + embedding2[k] * embedding2[k]]

\* a returned number is num / (sqrt(sq1) * sqrt(sq2)); 0 is 0 / (sqrt(1) * sqrt(1))
calculateSimilarityBothZero(embedding1, embedding2) ==
  IF Len(embedding1) # Len(embedding2)
  THEN [kind |-> "throws", num |-> 0, sq1 |-> 1, sq2 |-> 1]
  ELSE LET sums == SimilarityLoop(embedding1, embedding2, Len(embedding1))
       IN IF sums.norm1 = 0 /\ sums.norm2 = 0
          THEN [kind |-> "number", num |-> 0, sq1 |-> 1, sq2 |-> 1]
          ELSE IF sums.norm1 = 0 \/ sums.norm2 = 0
          THEN [kind |-> "NaN", num |-> 0, sq1 |-> 1, sq2 |-> 1]
          ELSE [kind |-> "number", num |-> sums.dotProduct,
                sq1 |-> sums.norm1, sq2 |-> sums.norm2]

calculateSimilarity(embedding1, embedding2) ==
  IF Len(embedding1) # Len(embedding2)
  THEN [kind |-> "throws", num |-> 0, sq1 |-> 1, sq2 |-> 1]
  ELSE LET sums == SimilarityLoop(embedding1, embedding2, Len(embedding1))
       IN IF sums.norm1 = 0 \/ sums.norm2 = 0
          THEN [kind |-> "number", num |-> 0, sq1 |-> 1, sq2 |-> 1]
          ELSE [kind |-> "number", num |-> sums.dotProduct,
                sq1 |-> sums.norm1, sq2 |-> sums.norm2]

\* a call of calculateSimilarity on two vectors of integers
StartCalculateSimilarity(c) ==
  /\ pc[c] = "idle"
  /\ op' = [op EXCEPT ![c] = "calculateSimilarity"]
  /\ proc' = [proc EXCEPT ![c] = MainProc]
  /\ LET vectors == UNION {[1..n -> -2..2] : n \in 0..MaxDim}
     IN \E a \in vectors, b \in vectors :
          LET r == calculateSimilarity(a, b)
          IN /\ local' = [local EXCEPT ![c] =
                            [NoLocal EXCEPT !.embedding1 = a, !.embedding2 = b, !.returned = r]]
             /\ IF r.kind = "throws"
                THEN Fail(c, "Embeddings must have the same dimension")
                ELSE /\ pc' = [pc EXCEPT ![c] = "returned"]
                     /\ UNCHANGED errs
  /\ UNCHANGED <<routerVars, storeVars, calls>>

NextSimilarity ==
  \/ StartCalculateSimilarity(1)
  \/ Finish(1)

SpecSimilarity == InitRouterSpec /\ [][NextSimilarity]_vars

\* C23: calculateSimilarity(a, b) throws the dimension error exactly when the
\* lengths of a and b differ; for equal lengths it returns 0 when a or b has
\* norm zero (two empty vectors included) and dot(a, b) / (|a| |b|) otherwise;
\* and it returns for (b, a) what it returns for (a, b)
C23_SimilarityClassified ==
  \A c \in Callers :
    op[c] = "calculateSimilarity" =>
      LET a == local[c].embedding1
          b == local[c].embedding2
          r == local[c].returned
          RECURSIVE Dot(_, _)
          Dot(x, y) == IF x = <<>> THEN 0 ELSE Head(x) * Head(y) + Dot(Tail(x), Tail(y))
          swapped == calculateSimilarity(b, a)
      IN /\ pc[c] = "failed" <=> Len(a) # Len(b)
         /\ pc[c] = "failed" => errs[c] = <<"Embeddings must have the same dimension">>
         /\ pc[c] = "returned" /\ (Dot(a, a) = 0 \/ Dot(b, b) = 0) =>
              r = [kind |-> "number", num |-> 0, sq1 |-> 1, sq2 |-> 1]
         /\ pc[c] = "returned" /\ Dot(a, a) # 0 /\ Dot(b, b) # 0 =>
              r = [kind |-> "number", num |-> Dot(a, b), sq1 |-> Dot(a, a), sq2 |-> Dot(b, b)]
         \* the factors of the denominator change places, the number is the same
         /\ swapped.kind = r.kind /\ swapped.num = r.num
         /\ swapped.sq1 * swapped.sq2 = r.sq1 * r.sq2

\* a nonzero vector has been compared with a zero vector of its length
C23_Witness ==
  \E c \in Callers :
    /\ op[c] = "calculateSimilarity" /\ pc[c] = "returned"
    /\ local[c].embedding1 = <<0, 0>> /\ local[c].embedding2 = <<1, -2>>
    /\ local[c].returned.num = 0

----------------------------------------------------------------------------
(* POST /api/fact-check *)

\* the route receives a body; a field that is omitted or empty is falsy.  The
\* handler answers at once, or calls checkClaim and answers when it settles
PostFactCheck(c) ==
  /\ pc[c] = "idle"
  /\ proc' = [proc EXCEPT ![c] = MainProc]
  /\ \E claim \in {<<>>, <<"b">>}, text \in {<<>>, <<"c">>, [i \in 1..(MaxLength + 1) |-> "a"]},
        articleId \in ArticleIds :
       LET body == [claim |-> claim, text |-> text, articleId |-> articleId]
           g == getFactChecker(factChecker, embeddingsService, instance, env, providers, warnings)
           Answer(status, code) ==
             /\ pc' = [pc EXCEPT ![c] = "responded"]
             /\ op' = [op EXCEPT ![c] = "POST"]
             /\ local' = [local EXCEPT ![c] =
                            [NoLocal EXCEPT !.body = body, !.status = status, !.code = code]]
             /\ UNCHANGED calls
           CheckClaim(checked) ==
             /\ pc' = [pc EXCEPT ![c] = "embed"]
             /\ op' = [op EXCEPT ![c] = "checkClaim"]
             /\ local' = [local EXCEPT ![c] =
                            [NoLocal EXCEPT !.body = body, !.claim = checked,
                                            !.articleId = articleId]]
             /\ calls' = [calls EXCEPT ![c] =
                            <<Call("embed", g.embeddingsService.aiService.id)>>]
             /\ UNCHANGED errs
       IN IF claim = <<>> /\ text = <<>> /\ articleId = ""
          THEN /\ Answer(400, "INVALID_INPUT")
               /\ UNCHANGED <<routerVars, errs>>
          ELSE /\ factChecker' = g.factChecker
               /\ embeddingsService' = g.embeddingsService
               /\ instance' = g.instance
               /\ providers' = g.providers
               /\ warnings' = g.warnings
               /\ UNCHANGED <<env, envChanges>>
               /\ IF ~g.ok
                  THEN /\ Answer(500, "FACT_CHECK_ERROR")
                       /\ errs' = [errs EXCEPT ![c] = Append(@, NoProviderError)]
                  ELSE IF claim # <<>> THEN CheckClaim(claim)
                  ELSE IF text # <<>>
                  THEN CheckClaim(IF Len(text) > MaxLength
                                  THEN Substring0(text, MaxLength) \o Ellipsis ELSE text)
                  ELSE /\ Answer(501, "NOT_IMPLEMENTED")
                       /\ UNCHANGED errs
  /\ UNCHANGED storeVars

\* checkClaim has settled: the success envelope, or the catch clause of the route
Respond(c) ==
  /\ op[c] = "checkClaim"
  /\ pc[c] \in {"returned", "failed"}
  /\ pc' = [pc EXCEPT ![c] = "responded"]
  /\ local' = [local EXCEPT ![c] =
                 [@ EXCEPT !.status = IF pc[c] = "returned" THEN 200 ELSE 500,
                           !.code = IF pc[c] = "returned" THEN "" ELSE "FACT_CHECK_ERROR"]]
  /\ UNCHANGED <<op, proc, calls, errs, routerVars, storeVars>>

NextEndpoint ==
  \E c \in Requests :
    \/ PostFactCheck(c)
    \/ EmbedDone(c)
    \/ GetCollectionDone(c)
    \/ CreateCollectionDone(c)
    \/ RefetchDone(c)
    \/ QueryDone(c)
    \/ GenerateTextDone(c, RouterOutcomes)
    \/ Respond(c)
    \/ pc[c] = "responded" /\ Finish(c)

SpecEndpoint == InitRouterSpec /\ [][NextEndpoint]_vars

\* C24: the route answers 400 exactly when claim, text and articleId are all
\* missing; it checks the claim when one is given and the text (cut to 200
\* characters and an ellipsis) when only a text is given; a body with an
\* articleId alone is answered 501 without a call of checkClaim, whatever the
\* provider configuration is; a failure is answered 500
C24_RequestClassified ==
  \A c \in Requests :
    pc[c] = "responded" =>
      LET l == local[c]
          none == l.body.claim = <<>> /\ l.body.text = <<>> /\ l.body.articleId = ""
      IN /\ l.status = 400 <=> none
         /\ l.body.claim # <<>> /\ l.status # 500 =>
              op[c] = "checkClaim" /\ l.claim = l.body.claim
         /\ l.body.claim = <<>> /\ l.body.text # <<>> /\ l.status # 500 =>
              /\ op[c] = "checkClaim"
              /\ l.claim = IF Len(l.body.text) > MaxLength
                           THEN Substring0(l.body.text, MaxLength) \o Ellipsis
                           ELSE l.body.text
         /\ l.body.claim = <<>> /\ l.body.text = <<>> /\ l.body.articleId # "" =>
              l.status = 501 /\ op[c] # "checkClaim" /\ calls[c] = <<>>
         /\ op[c] = "checkClaim" =>
              \/ l.status = 200 /\ l.result.claim = l.claim
              \/ l.status = 500 /\ l.code = "FACT_CHECK_ERROR" /\ l.result = NoResult

----------------------------------------------------------------------------
(* The hooks useFactCheck and useRealTimeFactCheck *)

MaxUpdates == 2     \* calls of updateClaim
MaxIssued == 2      \* requests the hook issues
MaxTime == 3        \* the clock stops here
debounceMs == 2     \* the delay passed to useRealTimeFactCheck, in ticks

\* The one hook instance lives in slot 1 of local.  result and error are 0
\* (null) or the number of the request whose response was stored; timers holds
\* the numbers of the updateClaim calls whose timeout is pending; updates,
\* issued and clearedAt record what happened, for the properties.
InitHookSpec ==
  /\ env \in {e \in Envs : e.AI_PROVIDER = "other" /\ e.GEMINI_API_KEY /\ e.OPENAI_API_KEY}
  /\ InitRouter
  /\ backend = [uid |-> 1, creations |-> 1]
  /\ index = [id \in RecordIds |-> CHOOSE sc \in CredibilityScores : \A t \in CredibilityScores : sc >= t]
  /\ InitRecords
  /\ collection = [p \in Procs |-> 0]
  /\ assigned = [p \in Procs |-> 0]
  /\ pc = [c \in Callers |-> "idle"]
  /\ op = [c \in Callers |-> "none"]
  /\ proc = [c \in Callers |-> MainProc]
  /\ calls = [c \in Callers |-> <<>>]
  /\ errs = [c \in Callers |-> <<>>]
  /\ local = [c \in Callers |->
                IF c = 1
                THEN [currentClaim |-> <<>>, result |-> 0, loading |-> FALSE, error |-> 0,
                      timers |-> {}, now |-> 0, updates |-> <<>>, issued |-> <<>>,
                      clearedAt |-> 0]
                ELSE IdleLocal]

\* performFactCheck up to its fetch: the request is in flight; by is the
\* updateClaim call whose timeout made the request, 0 for a direct call
performFactCheck(hook, claim, by) ==
  [hook EXCEPT !.loading = TRUE, !.error = 0,
               !.issued = Append(@, [claim |-> claim, at |-> hook.now, by |-> by,
                                     settled |-> "pending"])]

clearResult(hook) ==
  [hook EXCEPT !.result = 0, !.error = 0, !.clearedAt = Len(hook.issued)]

\* the callback updateClaim hands to setTimeout
TimeoutCallback(hook, n) ==
  LET claim == hook.updates[n].claim
  IN IF Len(claim) > 10 THEN performFactCheck(hook, claim, n)
     ELSE clearResult(hook)

\* updateClaim(claim): the claim is stored and a timeout of debounceMs is set;
\* the function that would clear the timeout is returned to a caller that
\* drops it
UpdateClaim ==
  /\ Len(local[1].updates) < MaxUpdates
  /\ \E claim \in {[i \in 1..11 |-> "a"], [i \in 1..11 |-> "b"], [i \in 1..10 |-> "a"]} :
       local' = [local EXCEPT ![1] =
                   [@ EXCEPT !.currentClaim = claim,
                             !.updates = Append(@, [claim |-> claim, at |-> local[1].now]),
                             !.timers = @ \cup {Len(local[1].updates) + 1}]]
  /\ UNCHANGED <<routerVars, storeVars, pc, op, proc, calls, errs>>

\* time passes while no timeout is due
Tick ==
  /\ local[1].now < MaxTime
  /\ \A n \in local[1].timers : local[1].updates[n].at + debounceMs > local[1].now
  /\ local' = [local EXCEPT ![1] = [@ EXCEPT !.now = @ + 1]]
  /\ UNCHANGED <<routerVars, storeVars, pc, op, proc, calls, errs>>

\* the timeout set first among those that are due runs its callback
TimerFires ==
  /\ \E n \in local[1].timers :
       /\ local[1].updates[n].at + debounceMs <= local[1].now
       /\ \A m \in local[1].timers : n <= m
       /\ Len(local[1].issued) < MaxIssued
       /\ local' = [local EXCEPT ![1] =
                      TimeoutCallback([local[1] EXCEPT !.timers = @ \ {n}], n)]
  /\ UNCHANGED <<routerVars, storeVars, pc, op, proc, calls, errs>>

\* the page calls checkClaim of the hook itself
HookCheckClaim ==
  /\ Len(local[1].issued) < MaxIssued
  /\ local' = [local EXCEPT ![1] = performFactCheck(@, [i \in 1..11 |-> "b"], 0)]
  /\ UNCHANGED <<routerVars, storeVars, pc, op, proc, calls, errs>>

\* the page calls clearResult of the hook itself
HookClearResult ==
  /\ local[1].result # 0 \/ local[1].error # 0
  /\ local' = [local EXCEPT ![1] = clearResult(@)]
  /\ UNCHANGED <<routerVars, storeVars, pc, op, proc, calls, errs>>

\* the fetch of request k settles: setResult(data.data) or setError, then
\* the finally clause
ResponseArrives ==
  /\ \E k \in 1..Len(local[1].issued), ok \in BOOLEAN :
       /\ local[1].issued[k].settled = "pending"
       /\ local' = [local EXCEPT ![1] =
                      [@ EXCEPT !.issued[k].settled = IF ok THEN "ok" ELSE "failed",
                                !.result = IF ok THEN k ELSE @,
                                !.error = IF ok THEN @ ELSE k,
                                !.loading = FALSE]]
  /\ UNCHANGED <<routerVars, storeVars, pc, op, proc, calls, errs>>

NextHook ==
  \/ UpdateClaim
  \/ Tick
  \/ TimerFires
  \/ HookCheckClaim
  \/ HookClearResult
  \/ ResponseArrives

SpecHook == InitHookSpec /\ [][NextHook]_vars

\* C25: a request made by useRealTimeFactCheck is for a claim of more than 10
\* characters, is issued debounceMs after the updateClaim call that carried
\* the claim, and that call is the last of its burst: no updateClaim call was
\* made less than debounceMs after it
C25_Debounced ==
  LET hook == local[1]
  IN \A k \in 1..Len(hook.issued) :
       hook.issued[k].by # 0 =>
         LET n == hook.issued[k].by
         IN /\ Len(hook.issued[k].claim) > 10
            /\ hook.issued[k].claim = hook.updates[n].claim
            /\ hook.issued[k].at = hook.updates[n].at + debounceMs
            /\ \A m \in (n + 1)..Len(hook.updates) :
                 hook.updates[m].at >= hook.updates[n].at + debounceMs

\* C26: loading is true exactly while a request of the hook is in flight
C26_LoadingWhileInFlight ==
  LET hook == local[1]
  IN hook.loading <=> \E k \in 1..Len(hook.issued) : hook.issued[k].settled = "pending"

\* C27: when no request is in flight and the request issued last has been
\* answered, the stored result is its response unless it was cleared since;
\* and a stored result is never the response to a request issued before the
\* result was last cleared
C27_LatestResponseStored ==
  LET hook == local[1]
      last == Len(hook.issued)
  IN /\ (/\ last > 0
         /\ \A k \in 1..last : hook.issued[k].settled # "pending"
         /\ hook.issued[last].settled = "ok"
         /\ hook.result # 0)
        => hook.result = last
     /\ hook.result # 0 => hook.result > hook.clearedAt

----------------------------------------------------------------------------
(* AIService.reset and the service singletons *)

\* C28: while AIService.reset() is in effect (no provider is cached) and the
\* configuration has changed, an embedding or completion request that a
\* process-wide service sends goes to a provider of the kind the selection
\* gives for the configuration of that moment (a configuration that has a
\* provider to select)
C28_CallsFollowNewSelection ==
  [][\A c \in Requests :
       (/\ instance = NoInstance /\ envChanges > 0
        /\ SelectProvider(env).kind # "none"
        /\ calls'[c] # calls[c] /\ calls'[c] # <<>>
        /\ calls'[c][Len(calls'[c])].name \in {"embed", "generateText"})
       => providers'[calls'[c][Len(calls'[c])].target] = SelectProvider(env).kind]_vars

----------------------------------------------------------------------------
(* ChromaVectorStore.clearCollection beside ensureCollection *)

MaxCreations == 2   \* collections the backend creates in all

\* the backend answers getCollection of ensureCollection with the collection
\* it holds; the answer is on its way to the caller
GetCollectionServed(c) ==
  /\ pc[c] = "getCollection"
  /\ backend.uid # 0
  /\ pc' = [pc EXCEPT ![c] = "getCollectionResolved"]
  /\ local' = [local EXCEPT ![c].handle = backend.uid]
  /\ UNCHANGED <<op, proc, routerVars, storeVars, calls, errs>>

\* the await of getCollection resumes: the answer is assigned to this.collection
GetCollectionResolved(c) ==
  /\ pc[c] = "getCollectionResolved"
  /\ UNCHANGED <<op, proc, routerVars, backend, index, tagsField, lastWrite, errs>>
  /\ collection' = [collection EXCEPT ![proc[c]] = local[c].handle]
  /\ assigned' = [assigned EXCEPT ![proc[c]] = @ + 1]
  /\ AfterEnsure(c, local[c].handle)

StartClearCollection(c) ==
  /\ pc[c] = "idle"
  /\ backend.creations < MaxCreations
  /\ \E p \in Procs : proc' = [proc EXCEPT ![c] = p]
  /\ op' = [op EXCEPT ![c] = "clearCollection"]
  /\ pc' = [pc EXCEPT ![c] = "deleteCollection"]
  /\ calls' = [calls EXCEPT ![c] = <<Call("deleteCollection", 0)>>]
  /\ UNCHANGED <<routerVars, storeVars, errs, local>>

\* deleteCollection settles: the handle is dropped after a delete that
\* succeeded; a rejection is caught and nothing else is done
DeleteCollectionDone(c) ==
  /\ pc[c] = "deleteCollection"
  /\ pc' = [pc EXCEPT ![c] = "returned"]
  /\ \/ /\ backend.uid # 0
        /\ backend' = [backend EXCEPT !.uid = 0]
        /\ index' = [id \in RecordIds |-> 0]
        /\ tagsField' = [id \in RecordIds |-> NoTags]
        /\ collection' = [collection EXCEPT ![proc[c]] = 0]
        /\ UNCHANGED errs
     \/ /\ \E error \in (IF backend.uid = 0 THEN {"not found"} ELSE {}) \cup {"network"} :
             errs' = [errs EXCEPT ![c] = Append(@, error)]
        /\ UNCHANGED <<backend, index, tagsField, collection>>
  /\ UNCHANGED <<op, proc, routerVars, lastWrite, assigned, calls, local>>

NextClear ==
  \E c \in Callers :
    \/ StartGetIndexStats(c)
    \/ StartClearCollection(c)
    \/ GetCollectionServed(c)
    \/ GetCollectionResolved(c)
    \/ GetCollectionDone(c)
    \/ CreateCollectionDone(c)
    \/ RefetchDone(c)
    \/ CountDone(c)
    \/ DeleteCollectionDone(c)
    \/ Finish(c)

SpecClear == InitStoreSpec /\ [][NextClear]_vars

\* C29: when clearCollection of a store has returned, the handle the store
\* caches is unset or refers to the collection the backend holds, whatever
\* ensureCollection calls ran beside it; and clearCollection never fails
C29_NoStaleHandleAfterClear ==
  \A c \in Callers :
    op[c] = "clearCollection" =>
      /\ pc[c] # "failed"
      /\ pc[c] = "returned" =>
           (collection[proc[c]] = 0 \/ collection[proc[c]] = backend.uid)

----------------------------------------------------------------------------
(* Failed initialization *)

\* C30: a failed initialization is not cached and the next call repeats it.
\* When ensureCollection fails the caller fails with the error of the backend
\* and this.collection is left as it was (unset); when provider selection
\* fails the caller fails with the no-provider error and neither the provider
\* nor a service singleton is set.  A call that finds the handle unset asks the
\* backend again and gets the handle when the backend gives it; a call that
\* finds no provider cached selects again and succeeds when a key is there.
C30_FailedInitNotCached ==
  [][\A c \in Requests :
       /\ (pc[c] \in {"createCollection", "refetch"} /\ pc'[c] = "failed") =>
            /\ collection' = collection /\ collection'[proc[c]] = 0
            /\ Last(errs'[c]) \in {"network", "not found"}
       /\ (pc[c] = "idle" /\ pc'[c] = "failed") =>
            /\ Last(errs'[c]) = NoProviderError
            /\ SelectProvider(env).kind = "none"
            /\ instance = NoInstance /\ instance' = NoInstance
            /\ factChecker' = factChecker /\ embeddingsService' = embeddingsService
       /\ (pc[c] = "embed" /\ pc'[c] \notin {"embed", "failed", "returned"}
           /\ collection[proc[c]] = 0) =>
            pc'[c] = "getCollection"
       /\ (pc[c] \in {"getCollection", "refetch"} /\ backend.uid # 0) =>
            ENABLED (/\ (GetCollectionDone(c) \/ RefetchDone(c))
                     /\ collection'[proc[c]] = backend.uid)
       /\ (pc[c] = "idle" /\ pc'[c] # "idle" /\ instance = NoInstance
           /\ SelectProvider(env).kind # "none") =>
            /\ pc'[c] # "failed"
            /\ op'[c] = "getAIService" => instance'.kind = SelectProvider(env).kind]_vars

\* the re-fetch of ensureCollection has failed after 'already exists', the
\* operation has failed with the error and the handle is unset
C30_Witness ==
  \E c \in Requests :
    /\ pc[c] = "failed" /\ op[c] = "checkClaim"
    /\ HasCall(c, "createCollection")
    /\ "already exists" \in Range(errs[c])
    /\ Last(errs[c]) = "network"
    /\ collection[proc[c]] = 0

====
